---- MODULE Spec2Model ----
(***************************************************************************)
(* A model of the IVY proof orchestrator (yosys_ivy):                      *)
(*   - the persistent status store and its retry-once transaction wrapper  *)
(*     (status_db.py), stepped statement by statement over two connections *)
(*     of one sqlite database in WAL mode           (specification SpecDb) *)
(*   - the solver scheduler (solver/__init__.py) with the status events,   *)
(*     the priority sentinels and the cancellations   (specification Spec) *)
(*   - the commands of main.py: run_command, the proof tasks, the design   *)
(*     preparation and the status task             (specification SpecRun) *)
(*   - the job lease of the solver tasks of solver/sby.py                  *)
(*                                               (specification SpecLease) *)
(*   - the status graph and the status map (data.py) and find_sccs         *)
(*     (sccs.py), as operators applied to bounded inputs                   *)
(*                                     (specifications SpecMap, SpecSccs). *)
(***************************************************************************)
EXTENDS Integers, Sequences, FiniteSets, TLC

VARIABLES
    db,         \* the committed rows of table proof_status: task -> status, or NoRow
    wlock,      \* the connection holding sqlite's write lock, 0 when it is free
    conn,       \* per store connection: the call in progress and its transaction
    faults,     \* operational errors injected so far that are not lock errors
    dispatched, \* run_command has scheduled and dispatched the proof tasks
    priority,   \* IvySolver.priority of each task
    task_state, \* the task loop's state of each solver task
    cancel_req, \* Task.cancel() was called on the task before it ended
    solver_finished,            \* IvySolver.solver_finished
    already_solved,             \* IvySolver.already_solved
    _tasks,                     \* Solvers._tasks
    _positive_priority_tasks,   \* Solvers._positive_priority_tasks
    _negative_priority_tasks,   \* Solvers._negative_priority_tasks
    _priority_sentinels,        \* Solvers._priority_sentinels: the state of
                                \* the sentinel of each name, "none" without one
    sentinel_depends_on,        \* the tasks each sentinel depends on
    depends_on_sentinel,        \* the tasks that depend on each sentinel
    status_ticks,               \* IvyStatusDb.status_ticks
    recomputes, \* the usefulness recomputes scheduled and not yet run, each
                \* the value of status_ticks it was scheduled with
    events,     \* the ProofStatusEvents emitted for each task, in order
    unneeded,   \* the tasks a usefulness recompute found active and not useful
    command,        \* App.command, "none" before the program is started
    reset_schedule, \* App.reset_schedule
    force,          \* App.force
    db_before,      \* the rows of the store when the command was started
    warnings,       \* the sinks check_proof_cycles warned about as unreachable
    prepare_design, \* the task loop's state of IvyPrepareDesign
    status_task,    \* the task loop's state of the status task
    report,         \* the status reports produced: each the statuses
                    \* run_status_task computed for the sinks
    lease_held,     \* the solver tasks that hold a unit of the job lease
    sby_proc,       \* IvySby.sby_proc: the state of each task's subprocess
    input,          \* the design of the program, or the argument of the
                    \* function applied
    output          \* its result, <<>> before it is applied

dbvars == <<db, wlock, conn, faults>>

schedvars ==
    <<dispatched, priority, task_state, cancel_req, solver_finished,
      already_solved, _tasks, _positive_priority_tasks,
      _negative_priority_tasks, _priority_sentinels, sentinel_depends_on,
      depends_on_sentinel, status_ticks, recomputes, events, unneeded>>

runvars ==
    <<command, reset_schedule, force, db_before, warnings, prepare_design,
      status_task, report>>

leasevars == <<lease_held, sby_proc>>

fnvars == <<input, output>>

vars == <<dbvars, schedvars, runvars, leasevars, fnvars>>

(***************************************************************************)
(* Bounds of the model.                                                    *)
(***************************************************************************)
MaxFaults == 1      \* injected operational errors that are not lock errors

(***************************************************************************)
(* data.py: the status domain and its combinators.                         *)
(***************************************************************************)
status_list ==
    <<"unreachable", "abandoned", "error", "fail", "unknown",
      "pending", "scheduled", "running", "pass">>

Status == {status_list[i] : i \in 1..Len(status_list)}

\* status_index[s], 0-based as in the source
status_index(s) == (CHOOSE i \in 1..Len(status_list) : status_list[i] = s) - 1

SetMin(S) == CHOOSE x \in S : \A y \in S : x <= y

SetMax(S) == CHOOSE x \in S : \A y \in S : x >= y

\* min over the arguments, default len(status_list) - 1
status_and(S) ==
    status_list[(IF S = {} THEN Len(status_list) - 1
                 ELSE SetMin({status_index(s) : s \in S})) + 1]

\* max over the arguments, default 0
status_or(S) ==
    status_list[(IF S = {} THEN 0 ELSE SetMax({status_index(s) : s \in S})) + 1]

\* status_or_equivalent without the test for fail
status_or_equivalent_max(S) == status_or(S)

status_or_equivalent(S) == IF "fail" \in S THEN "fail" ELSE status_or(S)


(***************************************************************************)
(* Sequences standing for Python's insertion-ordered lists, dicts and      *)
(* StableSets.                                                             *)
(***************************************************************************)
Range(q) == {q[i] : i \in 1..Len(q)}

RECURSIVE Flatten(_)
Flatten(qq) == IF qq = <<>> THEN <<>> ELSE Head(qq) \o Flatten(Tail(qq))

\* the first occurrences, in order: what adding to a StableSet keeps
Dedup(q) ==
    LET firsts == {i \in 1..Len(q) : \A j \in 1..(i - 1) : q[j] # q[i]}
        nth(k) == CHOOSE i \in firsts : Cardinality({j \in firsts : j <= i}) = k
    IN  [k \in 1..Cardinality(firsts) |-> q[nth(k)]]

Reverse(q) == [i \in 1..Len(q) |-> q[Len(q) + 1 - i]]

IndexOf(q, x) == CHOOSE i \in 1..Len(q) : q[i] = x

(***************************************************************************)
(* sccs.py: find_sccs, the iterative Tarjan.  nodes is the list of the     *)
(* keys of the adjacency dict and succ[n] the list of n's successors; a    *)
(* successor need not be a key.                                            *)
(***************************************************************************)
NotInLow == -1

\* nodes.get(node, ())
nodes_get(succ, node) == IF node \in DOMAIN succ THEN succ[node] ELSE <<>>

\* the keys and the successors: what low can come to hold
all_nodes(nodes, succ) ==
    Range(nodes) \cup UNION {Range(succ[k]) : k \in DOMAIN succ}

\* the component popped off the stack, down to node
PopComponent(stack, node) ==
    LET pos == IndexOf(stack, node)
    IN  [stack |-> SubSeq(stack, 1, pos - 1),
         component |-> Reverse(SubSeq(stack, pos, Len(stack)))]

LenLow(low) == Cardinality({n \in DOMAIN low : low[n] # NotInLow})

\* one round of the loop "while dfs"
find_sccs_dfs(nodes, succ, st) ==
    LET top == st.dfs[Len(st.dfs)]
        dfs0 == SubSeq(st.dfs, 1, Len(st.dfs) - 1)
        node == top.node
        num == top.num
        fresh == top.edges = NotInLow           \* node_edges is None
    IN  IF fresh /\ st.low[node] # NotInLow
        THEN [st EXCEPT !.dfs = dfs0]
        ELSE
          LET low1 == IF fresh THEN [st.low EXCEPT ![node] = num] ELSE st.low
              stack1 == IF fresh THEN Append(st.stack, node) ELSE st.stack
              pos == IF fresh THEN 0 ELSE top.edges
          IN  IF pos < Len(nodes_get(succ, node))
              THEN [st EXCEPT
                      !.low = low1,
                      !.stack = stack1,
                      !.dfs = dfs0 \o
                          <<[node |-> node, edges |-> pos + 1, num |-> num],
                            [node |-> nodes_get(succ, node)[pos + 1], edges |-> NotInLow,
                             num |-> LenLow(low1)]>>]
              ELSE
                LET val == SetMin({low1[node]} \cup
                               {low1[e] : e \in {x \in Range(nodes_get(succ, node)) :
                                                   low1[x] # NotInLow}})
                    low2 == [low1 EXCEPT ![node] = val]
                IN  IF num = val
                    THEN LET p == PopComponent(stack1, node)
                         IN  [st EXCEPT
                                !.dfs = dfs0,
                                !.stack = p.stack,
                                !.low = [n \in DOMAIN low2 |->
                                           IF n \in Range(p.component)
                                           THEN Len(nodes) ELSE low2[n]],
                                !.components = Append(@, p.component)]
                    ELSE [st EXCEPT !.dfs = dfs0, !.stack = stack1,
                                    !.low = low2]

\* one round of the loop "for start in nodes", st.start the next key to visit
find_sccs_start(nodes, st) ==
    IF st.low[nodes[st.start]] # NotInLow
    THEN [st EXCEPT !.start = @ + 1]
    ELSE [st EXCEPT !.start = @ + 1,
                    !.dfs = <<[node |-> nodes[st.start], edges |-> NotInLow,
                               num |-> LenLow(st.low)]>>]

find_sccs_done(nodes, st) == st.dfs = <<>> /\ st.start > Len(nodes)

find_sccs_step(nodes, succ, st) ==
    IF st.dfs # <<>> THEN find_sccs_dfs(nodes, succ, st) ELSE find_sccs_start(nodes, st)

\* up to n rounds of the two loops, halving n to keep the evaluation shallow
RECURSIVE find_sccs_rounds(_, _, _, _)
find_sccs_rounds(nodes, succ, st, n) ==
    IF find_sccs_done(nodes, st) \/ n = 0 THEN st
    ELSE IF n = 1 THEN find_sccs_step(nodes, succ, st)
    ELSE find_sccs_rounds(nodes, succ,
            find_sccs_rounds(nodes, succ, st, n \div 2), n - (n \div 2))

\* the two loops run until both are over
RECURSIVE find_sccs_loop(_, _, _, _)
find_sccs_loop(nodes, succ, st, n) ==
    LET st1 == find_sccs_rounds(nodes, succ, st, n)
    IN  IF find_sccs_done(nodes, st1) THEN st1
        ELSE find_sccs_loop(nodes, succ, st1, 2 * n)

\* the list of components, each a list in the order its nodes were added
find_sccs(nodes, succ) ==
    find_sccs_loop(nodes, succ,
        [components |-> <<>>, low |-> [n \in all_nodes(nodes, succ) |-> NotInLow],
         dfs |-> <<>>, stack |-> <<>>, start |-> 1], 16).components

(***************************************************************************)
(* data.py: the entities of a design and the edges they give the status    *)
(* graph.  A proof is [kind, name, solve, uses, assumes, asserts, exports] *)
(* with uses a list of [name, export], assumes and exports lists of        *)
(* [name, cross] and asserts a list of [name, local]; an invariant is      *)
(* [kind, name, solve].                                                    *)
(***************************************************************************)
StatusKey(type, name) == [type |-> type, name |-> name]
StatusEdge(source, target) == [source |-> source, target |-> target]

Proof(name, solve, uses, assumes, asserts, exports) ==
    [kind |-> "proof", name |-> name, solve |-> solve, uses |-> uses,
     assumes |-> assumes, asserts |-> asserts, exports |-> exports]
Invariant(name, solve) ==
    [kind |-> "invariant", name |-> name, solve |-> solve, uses |-> <<>>,
     assumes |-> <<>>, asserts |-> <<>>, exports |-> <<>>]

\* graph_sinks that yields the sinks of a proof that is not solved too
graph_sinks_unsolved(e) ==
    IF e.kind = "proof"
    THEN <<StatusKey("proof", e.name)>> \o
         [i \in 1..Len(e.asserts) |-> StatusKey("entity", e.asserts[i].name)]
    ELSE IF e.solve THEN <<StatusKey("entity", e.name)>> ELSE <<>>

\* IvyEntity.graph_sinks and IvyProof.graph_sinks
graph_sinks(e) ==
    IF e.kind = "proof"
    THEN IF e.solve /\ e.asserts # <<>>
         THEN <<StatusKey("proof", e.name)>> \o
              [i \in 1..Len(e.asserts) |-> StatusKey("entity", e.asserts[i].name)]
         ELSE <<>>
    ELSE IF e.solve THEN <<StatusKey("entity", e.name)>> ELSE <<>>

\* graph_edges that yields no edge for an assumption
graph_edges_no_assumes(e) ==
    IF e.kind # "proof"
    THEN IF e.solve
         THEN <<StatusEdge(StatusKey("task", e.name), StatusKey("entity", e.name))>>
         ELSE <<>>
    ELSE (IF e.solve /\ e.asserts # <<>>
          THEN <<StatusEdge(StatusKey("task", e.name), StatusKey("proof", e.name))>> \o
               [i \in 1..Len(e.asserts) |->
                   StatusEdge(StatusKey("proof", e.name), StatusKey("entity", e.asserts[i].name))]
          ELSE <<>>)
         \o <<StatusEdge(StatusKey("assume_proof", e.name), StatusKey("entity", e.name))>>

\* IvyEntity.graph_edges and IvyProof.graph_edges, in the order yielded
graph_edges(e) ==
    IF e.kind # "proof"
    THEN IF e.solve
         THEN <<StatusEdge(StatusKey("task", e.name), StatusKey("entity", e.name))>>
         ELSE <<>>
    ELSE
      LET solved == e.solve /\ e.asserts # <<>>
          CrossOrEntity(item) == StatusKey(IF item.cross THEN "cross" ELSE "entity", item.name)
      IN  (IF solved
           THEN <<StatusEdge(StatusKey("task", e.name), StatusKey("proof", e.name))>> \o
                [i \in 1..Len(e.assumes) |->
                    StatusEdge(CrossOrEntity(e.assumes[i]), StatusKey("proof", e.name))]
           ELSE <<>>)
          \o Flatten([i \in 1..Len(e.uses) |->
                (IF e.solve
                 THEN <<StatusEdge(StatusKey("export", e.uses[i].name),
                                   StatusKey("proof", e.name))>>
                 ELSE <<>>) \o
                (IF e.uses[i].export
                 THEN <<StatusEdge(StatusKey("export", e.uses[i].name),
                                   StatusKey("export", e.name))>>
                 ELSE <<>>)])
          \o (IF solved
              THEN Flatten([i \in 1..Len(e.asserts) |->
                     (IF ~e.asserts[i].local
                      THEN <<StatusEdge(StatusKey("entity", e.asserts[i].name),
                                        StatusKey("assume_proof", e.name))>>
                      ELSE <<>>) \o
                     <<StatusEdge(StatusKey("proof", e.name),
                                  StatusKey("entity", e.asserts[i].name))>>])
              ELSE <<>>)
          \o <<StatusEdge(StatusKey("assume_proof", e.name), StatusKey("entity", e.name))>>
          \o [i \in 1..Len(e.exports) |->
                StatusEdge(CrossOrEntity(e.exports[i]), StatusKey("export", e.name))]

(***************************************************************************)
(* data.py: IvyStatusGraph.__init__ over the list of entities.  Lists      *)
(* indexed by rank are functions on 0..n-1; None is written NoIndex.       *)
(***************************************************************************)
NoIndex == -1

\* the keys of the dict in_edges, in the order they are created
in_edges_keys(data) ==
    Dedup(Flatten([k \in 1..Len(data) |->
        graph_sinks(data[k]) \o
        Flatten([i \in 1..Len(graph_edges(data[k])) |->
            <<graph_edges(data[k])[i].target, graph_edges(data[k])[i].source>>])]))

all_edges(data) == Dedup(Flatten([k \in 1..Len(data) |-> graph_edges(data[k])]))

in_edges(data, key) == LET T(e) == e.target = key IN SelectSeq(all_edges(data), T)
out_edges(data, key) == LET T(e) == e.source = key IN SelectSeq(all_edges(data), T)

\* the order list computed from the out-edges: find_sccs of key -> targets
graph_order_list_forward(data) ==
    LET keys == in_edges_keys(data)
        succ == [key \in Range(keys) |->
                   [i \in 1..Len(out_edges(data, key)) |-> out_edges(data, key)[i].target]]
    IN  Flatten(find_sccs(keys, succ))

graph_order_list(data) ==
    LET keys == in_edges_keys(data)
        succ == [key \in Range(keys) |->
                   [i \in 1..Len(in_edges(data, key)) |-> in_edges(data, key)[i].source]]
    IN  Flatten(find_sccs(keys, succ))

IvyStatusGraph(data) ==
    LET keys == in_edges_keys(data)
        ol == graph_order_list(data)
        n == Len(ol)
        order == [key \in Range(ol) |-> IndexOf(ol, key) - 1]
        order_get(key) == IF key \in Range(ol) THEN order[key] ELSE NoIndex
    IN  [order |-> order,
         order_list |-> [i \in 0..(n - 1) |-> ol[i + 1]],
         sinks |-> Dedup(Flatten([k \in 1..Len(data) |-> graph_sinks(data[k])])),
         non_entity_sources |->
             LET T(key) == key.type \notin {"entity", "task"} /\ in_edges(data, key) = <<>>
             IN  SelectSeq(keys, T),
         tasks |-> LET T(key) == key.type = "task" IN SelectSeq(keys, T),
         cross_order_map |-> [i \in 0..(n - 1) |->
             IF ol[i + 1].type = "entity"
             THEN order_get(StatusKey("cross", ol[i + 1].name)) ELSE NoIndex],
         cross_order_inv_map |-> [i \in 0..(n - 1) |->
             IF ol[i + 1].type = "cross"
             THEN order_get(StatusKey("entity", ol[i + 1].name)) ELSE NoIndex],
         out_edges_list |-> [i \in 0..(n - 1) |->
             {order[e.target] : e \in Range(out_edges(data, ol[i + 1]))}],
         in_edges_list |-> [i \in 0..(n - 1) |->
             {order[e.source] : e \in Range(in_edges(data, ol[i + 1]))}]]

(***************************************************************************)
(* data.py: IvyStatusMap over a status graph g.  A dirty flag is set       *)
(* exactly while its index is queued, so each heap is the set of its       *)
(* indices and cross_dirty_list is a list without repetitions.             *)
(***************************************************************************)
_set_status(g, m, index, status) ==
    IF m.current_status[index] = status THEN m
    ELSE [m EXCEPT
            !.cross_dirty_list =
                IF g.cross_order_map[index] # NoIndex /\ index \notin Range(@)
                THEN Append(@, index) ELSE @,
            !.current_status[index] = status,
            !.dirty_queue = @ \cup g.out_edges_list[index]]

set_status(g, m, key, status) == _set_status(g, m, g.order[key], status)

\* set_status over a list of keys, all to one status
RECURSIVE set_status_all(_, _, _, _)
set_status_all(g, m, keys, status) ==
    IF keys = <<>> THEN m
    ELSE set_status_all(g, set_status(g, m, Head(keys), status), Tail(keys), status)

\* IvyStatusMap that leaves non_entity_sources unreachable
IvyStatusMap_unpinned(g) ==
    LET idx == DOMAIN g.order_list
        m0 == [current_status |-> [i \in idx |-> "unreachable"],
               current_useful |-> [i \in idx |-> FALSE],
               dirty_queue |-> {},
               useful_dirty_queue |-> {},
               cross_dirty_list |-> <<>>]
    IN  set_status_all(g, m0, g.tasks, "pending")

IvyStatusMap(g) ==
    LET idx == DOMAIN g.order_list
        m0 == [current_status |-> [i \in idx |-> "unreachable"],
               current_useful |-> [i \in idx |-> FALSE],
               dirty_queue |-> {},
               useful_dirty_queue |-> {},
               cross_dirty_list |-> <<>>]
    IN  set_status_all(g, set_status_all(g, m0, g.non_entity_sources, "pass"),
                       g.tasks, "pending")

map_status(g, m, key) == m.current_status[g.order[key]]
map_useful(g, m, key) == m.current_useful[g.order[key]]

\* combine_status that joins the predecessors of every kind of vertex
combine_status_or(g, m, index) ==
    status_or({m.current_status[e] : e \in g.in_edges_list[index]})

\* combine_status that meets the predecessors of every kind of vertex
combine_status_and(g, m, index) ==
    status_and({m.current_status[e] : e \in g.in_edges_list[index]})

combine_status(g, m, index) ==
    LET S == {m.current_status[e] : e \in g.in_edges_list[index]}
    IN  IF g.order_list[index].type = "entity" THEN status_or(S) ELSE status_and(S)

\* one round of the loop "while self.dirty_queue"
iterate_dirty_step(g, m) ==
    LET index == SetMin(m.dirty_queue)
        m1 == [m EXCEPT !.dirty_queue = @ \ {index}]
    IN  _set_status(g, m1, index, combine_status(g, m1, index))

\* up to n rounds of that loop, halving n to keep the evaluation shallow
RECURSIVE iterate_dirty_rounds(_, _, _)
iterate_dirty_rounds(g, m, n) ==
    IF m.dirty_queue = {} \/ n = 0 THEN m
    ELSE IF n = 1 THEN iterate_dirty_step(g, m)
    ELSE iterate_dirty_rounds(g, iterate_dirty_rounds(g, m, n \div 2), n - (n \div 2))

RECURSIVE iterate_dirty_loop(_, _, _)
iterate_dirty_loop(g, m, n) ==
    LET m1 == iterate_dirty_rounds(g, m, n)
    IN  IF m1.dirty_queue = {} THEN m1 ELSE iterate_dirty_loop(g, m1, 2 * n)

\* the loop "while self.dirty_queue"
iterate_dirty(g, m) == iterate_dirty_loop(g, m, 16)

\* the loop "for index in self.cross_dirty_list"
RECURSIVE iterate_cross(_, _, _)
iterate_cross(g, m, list) ==
    IF list = <<>> THEN m
    ELSE iterate_cross(g,
            _set_status(g, m, g.cross_order_map[Head(list)], m.current_status[Head(list)]),
            Tail(list))

\* iterate that runs the body of its outer loop once
iterate_once(g, m) ==
    LET m1 == iterate_dirty(g, m)
        m2 == iterate_cross(g, m1, m1.cross_dirty_list)
    IN  [m2 EXCEPT !.cross_dirty_list = <<>>]

RECURSIVE iterate(_, _)
iterate(g, m) ==
    IF m.dirty_queue = {} /\ m.cross_dirty_list = <<>> THEN m
    ELSE LET m1 == iterate_dirty(g, m)
             m2 == iterate_cross(g, m1, m1.cross_dirty_list)
         IN  iterate(g, [m2 EXCEPT !.cross_dirty_list = <<>>])

\* _set_useful that does not stop at pass and fail
_set_useful_any(g, m, index) ==
    IF m.current_useful[index] THEN m
    ELSE [m EXCEPT
            !.current_useful = [i \in DOMAIN @ |-> i = index \/ @[i]],
            !.useful_dirty_queue =
                @ \cup (IF g.cross_order_inv_map[index] # NoIndex
                        THEN {g.cross_order_inv_map[index]} ELSE {})
                  \cup g.in_edges_list[index]]

_set_useful(g, m, index) ==
    IF m.current_useful[index] THEN m
    ELSE IF m.current_status[index] \in {"pass", "fail"} THEN m
    ELSE [m EXCEPT
            !.current_useful = [i \in DOMAIN @ |-> i = index \/ @[i]],
            !.useful_dirty_queue =
                @ \cup (IF g.cross_order_inv_map[index] # NoIndex
                        THEN {g.cross_order_inv_map[index]} ELSE {})
                  \cup g.in_edges_list[index]]

\* one round of the loop "while self.useful_dirty_queue"
iterate_useful_step(g, m) ==
    LET index == SetMax(m.useful_dirty_queue)
    IN  _set_useful(g, [m EXCEPT !.useful_dirty_queue = @ \ {index}], index)

RECURSIVE iterate_useful_rounds(_, _, _)
iterate_useful_rounds(g, m, n) ==
    IF m.useful_dirty_queue = {} \/ n = 0 THEN m
    ELSE IF n = 1 THEN iterate_useful_step(g, m)
    ELSE iterate_useful_rounds(g, iterate_useful_rounds(g, m, n \div 2), n - (n \div 2))

RECURSIVE iterate_useful_loop(_, _, _)
iterate_useful_loop(g, m, n) ==
    LET m1 == iterate_useful_rounds(g, m, n)
    IN  IF m1.useful_dirty_queue = {} THEN m1 ELSE iterate_useful_loop(g, m1, 2 * n)

iterate_useful(g, m) == iterate_useful_loop(g, m, 16)

RECURSIVE mark_sinks_from(_, _, _)
mark_sinks_from(g, m, sinks) ==
    IF sinks = <<>> THEN m
    ELSE mark_sinks_from(g,
            IF Head(sinks).type # "proof" THEN _set_useful(g, m, g.order[Head(sinks)]) ELSE m,
            Tail(sinks))

mark_sinks_as_useful(g, m) == mark_sinks_from(g, m, g.sinks)

(***************************************************************************)
(* Tasks: IvyTaskName(name, solver).                                       *)
(***************************************************************************)
Names == {"P", "Q"}

TaskP1 == [name |-> "P", solver |-> "s1"]
TaskP2 == [name |-> "P", solver |-> "s2"]
TaskP3 == [name |-> "P", solver |-> "s3"]
TaskQ1 == [name |-> "Q", solver |-> "s1"]

Tasks == {TaskP1, TaskP2, TaskP3, TaskQ1}

(***************************************************************************)
(* status_db.py: the store.  A row that does not exist reads as NoRow;     *)
(* a key that is not in a result dict reads as NoResult.                   *)
(***************************************************************************)
NoRow == "norow"
NoResult == "absent"

Conns == {1, 2}

Other(c) == 3 - c

\* the require test inverted
RequireMismatch_inverted(old_status, has_require, require) ==
    has_require /\ old_status \in require

\* require is None: has_require = FALSE
RequireMismatch(old_status, has_require, require) ==
    has_require /\ old_status \notin require

EmptyTable == [t \in Tasks |-> NoRow]

NoResults == [t \in Tasks |-> NoResult]

\* a connection with no call in progress and no open transaction
IdleConn ==
    [pc |-> "idle", names |-> <<>>, new_status |-> "pending",
     has_require |-> FALSE, require |-> {},
     attempt |-> 0, i |-> 1, results |-> NoResults,
     mode |-> "none", has_snap |-> FALSE, stale |-> FALSE,
     snap |-> EmptyTable, writes |-> <<>>,
     outcome |-> "none",
     \* history of the call, kept for the properties
     body_runs |-> 0, commits |-> 0, first_err |-> "none",
     base |-> EmptyTable, attempt_writes |-> <<>>, committed_writes |-> <<>>,
     pre |-> EmptyTable, foreign |-> FALSE]

\* the rows a table holds after the UPDATEs ws = <<task, status>>, ...
ApplyWrites(table, ws) ==
    [t \in Tasks |->
        LET idx == {k \in 1..Len(ws) : ws[k][1] = t}
        IN  IF idx = {} THEN table[t] ELSE ws[SetMax(idx)][2]]

\* the current state of the store, as one value
StoreState == [db |-> db, wlock |-> wlock, conn |-> conn]

\* what a SELECT of connection c reads: its snapshot and its own writes
ReadRow(s, c, t) == ApplyWrites(s.conn[c].snap, s.conn[c].writes)[t]

\* self.db.rollback(): the writes are dropped, the locks released
sqlite_rollback(s, c) ==
    [s EXCEPT !.wlock = IF s.wlock = c THEN 0 ELSE s.wlock,
              !.conn[c].mode = "none",
              !.conn[c].has_snap = FALSE,
              !.conn[c].stale = FALSE,
              !.conn[c].snap = EmptyTable,
              !.conn[c].writes = <<>>]

\* self.db.execute("commit"): the writes reach the table; a read snapshot
\* another connection holds is stale from now on
sqlite_commit(s, c) ==
    LET ws == s.conn[c].writes
        d == Other(c)
        newdb == ApplyWrites(s.db, ws)
        s1 == sqlite_rollback(s, c)
    IN  [s1 EXCEPT !.db = newdb,
                   !.conn[c].commits = @ + 1,
                   !.conn[c].committed_writes = ws,
                   !.conn[d].stale = IF ws # <<>> /\ s.conn[d].has_snap
                                     THEN TRUE ELSE @,
                   !.conn[d].foreign = IF ws # <<>> /\ s.conn[d].pc # "idle"
                                       THEN TRUE ELSE @]

\* the first statement of a transaction that reads takes the snapshot
sqlite_snapshot(s, c) ==
    IF s.conn[c].has_snap THEN s
    ELSE [s EXCEPT !.conn[c].has_snap = TRUE,
                   !.conn[c].stale = FALSE,
                   !.conn[c].snap = s.db,
                   !.conn[c].base = s.db]

\* the wrapper enters the method body
enter_body(s, c) ==
    [s EXCEPT !.conn[c].pc = "select",
              !.conn[c].i = 1,
              !.conn[c].results = NoResults,
              !.conn[c].attempt_writes = <<>>,
              !.conn[c].body_runs = @ + 1]

\* the first except clause commits where it should roll back
transaction_operational_error_commits(s, c) ==
    LET s1 == IF s.conn[c].attempt = 1 THEN sqlite_commit(s, c)
              ELSE sqlite_rollback(s, c)
    IN  IF s.conn[c].attempt = 1
        THEN [s1 EXCEPT !.conn[c].attempt = 2,
                        !.conn[c].pc = "begin",
                        !.conn[c].first_err = "operational"]
        ELSE [s1 EXCEPT !.conn[c].pc = "done",
                        !.conn[c].outcome = "operational"]

\* the wrapper retries as long as the error is operational
transaction_operational_error_loops(s, c) ==
    LET s1 == sqlite_rollback(s, c)
    IN  [s1 EXCEPT !.conn[c].attempt = @ + 1,
                   !.conn[c].pc = "begin",
                   !.conn[c].first_err = "operational"]

\* the wrapper retries the statement that failed, not the method
transaction_operational_error_resumes(s, c) ==
    LET s1 == sqlite_rollback(s, c)
    IN  IF s.conn[c].attempt = 1
        THEN [s1 EXCEPT !.conn[c].attempt = 2,
                        !.conn[c].first_err = "operational"]
        ELSE [s1 EXCEPT !.conn[c].pc = "done",
                        !.conn[c].outcome = "operational"]

\* except sqlite3.OperationalError: rollback; then the second try block
\* (first attempt), or except Exception: rollback; raise (second attempt)
transaction_operational_error(s, c) ==
    LET s1 == sqlite_rollback(s, c)
    IN  IF s.conn[c].attempt = 1
        THEN [s1 EXCEPT !.conn[c].attempt = 2,
                        !.conn[c].pc = "begin",
                        !.conn[c].first_err = "operational"]
        ELSE [s1 EXCEPT !.conn[c].pc = "done",
                        !.conn[c].outcome = "operational"]

\* the second except clause leaves the transaction to be committed
transaction_other_error_commits(s, c) ==
    LET s1 == sqlite_commit(s, c)
    IN  [s1 EXCEPT !.conn[c].pc = "done",
                   !.conn[c].outcome = "other",
                   !.conn[c].first_err =
                       IF s.conn[c].attempt = 1 THEN "other" ELSE @]

\* except Exception: rollback; raise (either attempt)
transaction_other_error(s, c) ==
    LET s1 == sqlite_rollback(s, c)
    IN  [s1 EXCEPT !.conn[c].pc = "done",
                   !.conn[c].outcome = "other",
                   !.conn[c].first_err =
                       IF s.conn[c].attempt = 1 THEN "other" ELSE @]

\* self.db.execute("begin") / self.db.execute("begin immediate")
transaction_begin(s, c) ==
    IF s.conn[c].attempt = 1
    THEN enter_body([s EXCEPT !.conn[c].mode = "deferred"], c)
    ELSE IF s.wlock = 0
         THEN enter_body(
                sqlite_snapshot([s EXCEPT !.wlock = c,
                                          !.conn[c].mode = "immediate"], c), c)
         ELSE transaction_operational_error(s, c)    \* database is locked

\* the loop of change_status_many moves to the next task, or the body returns
next_task(s, c) ==
    IF s.conn[c].i >= Len(s.conn[c].names)
    THEN [s EXCEPT !.conn[c].pc = "commit"]
    ELSE [s EXCEPT !.conn[c].pc = "select", !.conn[c].i = @ + 1]

\* SELECT status ... fetchone()[0], then the require test
change_status_select(s, c) ==
    LET s1 == sqlite_snapshot(s, c)
        r == s1.conn[c]
        t == r.names[r.i]
        old == ReadRow(s1, c, t)
    IN  IF old = NoRow
        THEN transaction_other_error(s1, c)     \* None[0]: TypeError
        ELSE IF RequireMismatch(old, r.has_require, r.require)
             THEN next_task([s1 EXCEPT !.conn[c].results[t] = old], c)
             ELSE [s1 EXCEPT !.conn[c].pc = "update"]

\* the row is written in the transaction of connection c
sqlite_write(s, c) ==
    LET r == s.conn[c]
        w == <<r.names[r.i], r.new_status>>
    IN  next_task([s EXCEPT !.conn[c].writes = Append(@, w),
                            !.conn[c].attempt_writes = Append(@, w)], c)

\* UPDATE proof_status SET status = :status ...: needs the write lock, which
\* a transaction whose snapshot is stale cannot get
change_status_update(s, c) ==
    IF s.wlock = c
    THEN sqlite_write(s, c)
    ELSE IF s.wlock # 0 \/ s.conn[c].stale
         THEN transaction_operational_error(s, c)    \* database is locked
         ELSE sqlite_write(sqlite_snapshot([s EXCEPT !.wlock = c], c), c)

\* self.db.execute("commit"); return result
transaction_commit(s, c) ==
    LET s1 == sqlite_commit(s, c)
    IN  [s1 EXCEPT !.conn[c].pc = "done", !.conn[c].outcome = "ok"]

StoreStep(s) ==
    /\ db' = s.db
    /\ wlock' = s.wlock
    /\ conn' = s.conn

(***************************************************************************)
(* The calls the two connections make.                                     *)
(***************************************************************************)
\* change_status(TaskP1, "scheduled", require=("pending",)); the bulk
\* transitions of run and of prove --reset-schedule; a batch without require
\* whose second task may have no row
CallSet ==
    {[names |-> <<TaskP1>>, new_status |-> "scheduled",
      has_require |-> TRUE, require |-> {"pending"}],
     [names |-> <<TaskP1, TaskP2>>, new_status |-> "scheduled",
      has_require |-> TRUE, require |-> {"pending"}],
     [names |-> <<TaskP1, TaskP2>>, new_status |-> "scheduled",
      has_require |-> TRUE, require |-> {"pending", "scheduled", "running"}],
     [names |-> <<TaskP2, TaskQ1>>, new_status |-> "pending",
      has_require |-> FALSE, require |-> {}]}

\* change_status_many(names, new_status, require) is called on connection c
Call(c, call) ==
    /\ conn[c].pc = "idle"
    /\ conn' = [conn EXCEPT ![c] =
                  [IdleConn EXCEPT !.pc = "begin", !.attempt = 1,
                                   !.names = call.names,
                                   !.new_status = call.new_status,
                                   !.has_require = call.has_require,
                                   !.require = call.require,
                                   !.pre = db]]
    /\ UNCHANGED <<db, wlock, faults>>

Begin(c) ==
    /\ conn[c].pc = "begin"
    /\ StoreStep(transaction_begin(StoreState, c))
    /\ UNCHANGED faults

Select(c) ==
    /\ conn[c].pc = "select"
    /\ StoreStep(change_status_select(StoreState, c))
    /\ UNCHANGED faults

Update(c) ==
    /\ conn[c].pc = "update"
    /\ StoreStep(change_status_update(StoreState, c))
    /\ UNCHANGED faults

Commit(c) ==
    /\ conn[c].pc = "commit"
    /\ StoreStep(transaction_commit(StoreState, c))
    /\ UNCHANGED faults

\* a statement raises sqlite3.OperationalError for another reason than a
\* lock (an I/O error, a failing nested call as in test_status_db_retry)
Fault(c) ==
    /\ conn[c].pc \in {"select", "update", "commit"}
    /\ faults < MaxFaults
    /\ faults' = faults + 1
    /\ StoreStep(transaction_operational_error(StoreState, c))

\* the call returns or raises; the connection is free for the next call
Return(c) ==
    /\ conn[c].pc = "done"
    /\ conn' = [conn EXCEPT ![c] = IdleConn]
    /\ UNCHANGED <<db, wlock, faults>>

\* the scheduler before run_command: Solvers.__init__ and the fresh store
SchedIdle ==
    /\ dispatched = FALSE
    /\ task_state = [t \in Tasks |-> "none"]
    /\ cancel_req = [t \in Tasks |-> FALSE]
    /\ solver_finished = [t \in Tasks |-> FALSE]
    /\ already_solved = [t \in Tasks |-> FALSE]
    /\ _tasks = [n \in Names |-> {}]
    /\ _positive_priority_tasks = [n \in Names |-> {}]
    /\ _negative_priority_tasks = [n \in Names |-> {}]
    /\ _priority_sentinels = [n \in Names |-> "none"]
    /\ sentinel_depends_on = [n \in Names |-> {}]
    /\ depends_on_sentinel = [n \in Names |-> {}]
    /\ status_ticks = 0
    /\ recomputes = <<>>
    /\ events = [t \in Tasks |-> <<>>]
    /\ unneeded = {}

\* the program not started, no lease taken, no function applied
RunIdle ==
    /\ command = "none"
    /\ reset_schedule = FALSE
    /\ force = FALSE
    /\ db_before = EmptyTable
    /\ warnings = {}
    /\ prepare_design = "none"
    /\ status_task = "none"
    /\ report = <<>>

LeaseIdle ==
    /\ lease_held = {}
    /\ sby_proc = [t \in Tasks |-> "none"]

FnIdle ==
    /\ input = <<>>
    /\ output = <<>>

\* the store of a design whose proof P has the solvers s1 and s2; the row of
\* Q may be missing
InitDb ==
    /\ db \in {f \in [Tasks -> {"pending", NoRow}] :
                 f[TaskP1] # NoRow /\ f[TaskP2] # NoRow /\ f[TaskP3] = NoRow}
    /\ wlock = 0
    /\ conn = [c \in Conns |-> IdleConn]
    /\ faults = 0
    /\ priority = [t \in Tasks |-> 0]
    /\ SchedIdle
    /\ RunIdle /\ LeaseIdle /\ FnIdle

NextDb ==
    /\ \E c \in Conns :
          \/ \E call \in CallSet : Call(c, call)
          \/ Begin(c)
          \/ Select(c)
          \/ Update(c)
          \/ Commit(c)
          \/ Fault(c)
          \/ Return(c)
    /\ UNCHANGED <<schedvars, runvars, leasevars, fnvars>>

SpecDb == InitDb /\ [][NextDb]_vars

(***************************************************************************)
(* Properties of the store (SpecDb).                                       *)
(***************************************************************************)
Finished(c) == conn[c].pc = "done"

Returned(c) == Finished(c) /\ conn[c].outcome = "ok"

Raised(c) == Finished(c) /\ conn[c].outcome \in {"operational", "other"}

NamesOf(c) == {conn[c].names[k] : k \in 1..Len(conn[c].names)}

\* the rows the transaction that committed had read, and the rows it left
RowsBefore(c) == conn[c].base

RowsAfter(c) == ApplyWrites(conn[c].base, conn[c].committed_writes)

\* the call left no trace: nothing committed, no transaction open, no lock
NoTrace(c) ==
    /\ conn[c].commits = 0
    /\ conn[c].mode = "none"
    /\ conn[c].writes = <<>>
    /\ wlock # c
    /\ (~conn[c].foreign => db = conn[c].pre)

\* C2: change_status_many decides each listed task on its own: the row is
\* overwritten with new_status iff require is absent or holds the status the
\* transaction read; the other rows keep their status, and the result maps
\* exactly the listed tasks that were not written to the status read.
C2_RequireSemantics ==
    \A c \in Conns :
        Returned(c) =>
            /\ \A t \in Tasks :
                  LET listed == t \in NamesOf(c)
                      allowed == \/ ~conn[c].has_require
                                 \/ RowsBefore(c)[t] \in conn[c].require
                  IN  IF listed /\ allowed
                      THEN /\ RowsAfter(c)[t] = conn[c].new_status
                           /\ conn[c].results[t] = NoResult
                      ELSE /\ RowsAfter(c)[t] = RowsBefore(c)[t]
                           /\ conn[c].results[t] =
                                 IF listed THEN RowsBefore(c)[t] ELSE NoResult
            /\ (~conn[c].foreign =>
                    RowsBefore(c) = conn[c].pre /\ db = RowsAfter(c))

\* a batch whose first task is refused and whose second task is written
C2_Witness ==
    \E c \in Conns :
        /\ Returned(c)
        /\ conn[c].names = <<TaskP1, TaskP2>>
        /\ conn[c].results[TaskP1] = "scheduled"
        /\ conn[c].results[TaskP2] = NoResult
        /\ conn[c].pre[TaskP2] = "pending"
        /\ db[TaskP2] = "scheduled"

\* C3: a call whose first attempt failed with an operational error and whose
\* second attempt succeeded ran its body exactly twice, committed exactly
\* once, and committed the writes of the second attempt only.
C3_SingleRetry ==
    \A c \in Conns :
        (Returned(c) /\ conn[c].first_err = "operational") =>
            /\ conn[c].attempt = 2
            /\ conn[c].body_runs = 2
            /\ conn[c].commits = 1
            /\ conn[c].committed_writes = conn[c].attempt_writes
            /\ (~conn[c].foreign =>
                    db = ApplyWrites(conn[c].pre, conn[c].attempt_writes))

\* the retry of a call succeeded and wrote a row
C3_Witness ==
    \E c \in Conns :
        /\ Returned(c)
        /\ conn[c].first_err = "operational"
        /\ conn[c].committed_writes # <<>>
        /\ db # conn[c].pre

\* C4: a call is attempted at most twice; when the second attempt fails too
\* the error reaches the caller and the call leaves no trace in the store.
C4_AtMostTwice ==
    \A c \in Conns :
        /\ conn[c].attempt <= 2
        /\ conn[c].body_runs <= 2
        /\ (Raised(c) /\ conn[c].attempt = 2) => NoTrace(c)
        /\ (Finished(c) /\ conn[c].outcome = "operational") =>
               conn[c].attempt = 2

\* the second attempt wrote a row and failed
C4_Witness ==
    \E c \in Conns :
        /\ Raised(c)
        /\ conn[c].outcome = "operational"
        /\ conn[c].body_runs = 2
        /\ conn[c].attempt_writes # <<>>

\* C5: an exception that is not an operational error ends the call in the
\* attempt that raised it, and the call leaves no trace in the store, the
\* rows it had already updated included.
C5_OtherErrorRollsBack ==
    \A c \in Conns :
        /\ conn[c].first_err = "other" => (conn[c].attempt = 1 /\ Finished(c))
        /\ (Finished(c) /\ conn[c].outcome = "other") => NoTrace(c)

\* the batch had updated a row to another status before the task without a
\* row was read
C5_Witness ==
    \E c \in Conns :
        /\ Finished(c)
        /\ conn[c].first_err = "other"
        /\ conn[c].attempt_writes # <<>>
        /\ conn[c].pre[conn[c].attempt_writes[1][1]] # conn[c].new_status
        /\ ~conn[c].foreign
        /\ db = conn[c].pre

\* connection c is in a call change_status(TaskP1, "scheduled", ("pending",))
\* that began while the row was pending
InRace(c) ==
    /\ conn[c].pc # "idle"
    /\ conn[c].names = <<TaskP1>>
    /\ conn[c].new_status = "scheduled"
    /\ conn[c].has_require
    /\ conn[c].require = {"pending"}
    /\ conn[c].pre[TaskP1] = "pending"

Succeeded(c) == Returned(c) /\ conn[c].results[TaskP1] = NoResult

Refused(c) == Returned(c) /\ conn[c].results[TaskP1] # NoResult

\* C6: two overlapping calls change_status(t, scheduled, require={pending})
\* on a pending row end as in one of their sequential orders: never both
\* succeed; a refused call was told scheduled, the status the other call
\* had committed; the row is scheduled iff one call succeeded.
C6_Linearizable ==
    (InRace(1) /\ InRace(2)) =>
        /\ ~(Succeeded(1) /\ Succeeded(2))
        /\ \A c \in Conns :
              Refused(c) =>
                  conn[c].results[TaskP1] = "scheduled" /\ Succeeded(Other(c))
        /\ (Succeeded(1) \/ Succeeded(2)) => db[TaskP1] = "scheduled"
        /\ (Finished(1) /\ Finished(2) /\ ~Succeeded(1) /\ ~Succeeded(2)) =>
              db[TaskP1] = "pending"

\* both calls read pending; one committed, the other was refused on its retry
C6_Witness ==
    /\ InRace(1) /\ InRace(2)
    /\ \E c \in Conns :
          /\ Succeeded(c)
          /\ Refused(Other(c))
          /\ conn[Other(c)].attempt = 2
          /\ conn[Other(c)].base[TaskP1] = "scheduled"

(***************************************************************************)
(* The scheduler (specification Spec).  The design has two solved proofs,  *)
(* P and Q, both asserting the invariant X; P is solved with s1 and s2,    *)
(* or with s1, s2 and s3, Q with s1.  The task loop is single-threaded:    *)
(* each action is one step of one task, and an event is handled            *)
(* synchronously when it is emitted.                                       *)
(***************************************************************************)
SchedDesign ==
    <<Proof("P", TRUE, <<>>, <<>>, <<[name |-> "X", local |-> FALSE]>>, <<>>),
      Proof("Q", TRUE, <<>>, <<>>, <<[name |-> "X", local |-> FALSE]>>, <<>>),
      Invariant("X", FALSE)>>

SchedGraph == IvyStatusGraph(SchedDesign)

Active == {"pending", "scheduled", "running"}
Terminal == {"done", "failed", "cancelled"}
Verdicts == {"pass", "fail", "unknown"}

SchedState ==
    [db |-> db, task_state |-> task_state, priority |-> priority,
     cancel_req |-> cancel_req, solver_finished |-> solver_finished,
     already_solved |-> already_solved, _tasks |-> _tasks,
     _positive_priority_tasks |-> _positive_priority_tasks,
     _negative_priority_tasks |-> _negative_priority_tasks,
     _priority_sentinels |-> _priority_sentinels,
     sentinel_depends_on |-> sentinel_depends_on,
     depends_on_sentinel |-> depends_on_sentinel,
     status_ticks |-> status_ticks, recomputes |-> recomputes,
     events |-> events, unneeded |-> unneeded]

SchedStep(s) ==
    /\ db' = s.db
    /\ task_state' = s.task_state
    /\ priority' = s.priority
    /\ cancel_req' = s.cancel_req
    /\ solver_finished' = s.solver_finished
    /\ already_solved' = s.already_solved
    /\ _tasks' = s._tasks
    /\ _positive_priority_tasks' = s._positive_priority_tasks
    /\ _negative_priority_tasks' = s._negative_priority_tasks
    /\ _priority_sentinels' = s._priority_sentinels
    /\ sentinel_depends_on' = s.sentinel_depends_on
    /\ depends_on_sentinel' = s.depends_on_sentinel
    /\ status_ticks' = s.status_ticks
    /\ recomputes' = s.recomputes
    /\ events' = s.events
    /\ unneeded' = s.unneeded

\* change_status on the scheduler's connection, the only one open during a
\* run: no other writer, so the transaction commits at its first attempt
change_status(table, t, new_status, require) ==
    IF table[t] \in require THEN [table EXCEPT ![t] = new_status] ELSE table

\* reduced_status: the statuses of the rows grouped by name
reduced_status(table) ==
    LET rows == {t \in Tasks : table[t] # NoRow}
    IN  [n \in {t.name : t \in rows} |->
            status_or_equivalent({table[t] : t \in {u \in rows : u.name = n}})]

\* dispatch_proof_task without the dependencies on the sentinel
dispatch_proof_task_unordered(s, t) ==
    LET n == t.name
        s1 == [s EXCEPT !.task_state[t] = "waiting", !._tasks[n] = @ \cup {t}]
    IN  IF s.priority[t] > 0
        THEN [s1 EXCEPT !._positive_priority_tasks[n] = @ \cup {t}]
        ELSE IF s.priority[t] < 0
        THEN [s1 EXCEPT !._negative_priority_tasks[n] = @ \cup {t}]
        ELSE s1

dispatch_proof_task(s, t) ==
    LET n == t.name
        s1 == [s EXCEPT !.task_state[t] = "waiting", !._tasks[n] = @ \cup {t}]
    IN  IF s.priority[t] > 0
        THEN LET s2 ==
                   IF s._negative_priority_tasks[n] # {}
                   THEN LET s3 ==
                              IF s._positive_priority_tasks[n] # {} THEN s1
                              ELSE [s1 EXCEPT
                                      !._priority_sentinels[n] = "waiting",
                                      !.depends_on_sentinel[n] =
                                          @ \cup s._negative_priority_tasks[n]]
                        IN  [s3 EXCEPT !.sentinel_depends_on[n] = @ \cup {t}]
                   ELSE s1
             IN  [s2 EXCEPT !._positive_priority_tasks[n] = @ \cup {t}]
        ELSE IF s.priority[t] < 0
        THEN LET s2 ==
                   IF s._positive_priority_tasks[n] # {}
                   THEN LET s3 ==
                              IF s._negative_priority_tasks[n] # {} THEN s1
                              ELSE [s1 EXCEPT
                                      !._priority_sentinels[n] = "waiting",
                                      !.sentinel_depends_on[n] =
                                          @ \cup s._positive_priority_tasks[n]]
                        IN  [s3 EXCEPT !.depends_on_sentinel[n] = @ \cup {t}]
                   ELSE s1
             IN  [s2 EXCEPT !._negative_priority_tasks[n] = @ \cup {t}]
        ELSE s1

\* IvySolver.cancel that does not record already_solved
cancel_forgets(s, t, solved) ==
    [s EXCEPT !.cancel_req[t] = @ \/ s.task_state[t] \in {"waiting", "running"}]

\* IvySolver.cancel that assigns already_solved
cancel_assigns(s, t, solved) ==
    [s EXCEPT !.already_solved[t] = solved,
              !.cancel_req[t] = @ \/ s.task_state[t] \in {"waiting", "running"}]

\* IvySolver.cancel; Task.cancel() has no effect on a task that has ended
cancel(s, t, solved) ==
    [s EXCEPT !.already_solved[t] = @ \/ solved,
              !.cancel_req[t] = @ \/ s.task_state[t] \in {"waiting", "running"}]

RECURSIVE cancel_each(_, _, _)
cancel_each(s, tasks, solved) ==
    IF tasks = {} THEN s
    ELSE LET t == CHOOSE t \in tasks : TRUE
         IN  cancel_each(cancel(s, t, solved), tasks \ {t}, solved)

\* cancel_proof_tasks that also cancels the tasks whose solver has finished
cancel_proof_tasks_finished(s, name, solved) ==
    [cancel_each(s, s._tasks[name], solved) EXCEPT !._tasks[name] = {}]

cancel_proof_tasks(s, name, solved) ==
    [cancel_each(s, {t \in s._tasks[name] : ~s.solver_finished[t]}, solved)
        EXCEPT !._tasks[name] = {}]

\* the handler of ProofStatusEvent: the status is stored if the stored one
\* is in the require set of the event; a verdict cancels the other tasks of
\* the name and schedules a usefulness recompute
proof_event_handler(s, t, status) ==
    LET require == IF status = "running" THEN {"scheduled"}
                   ELSE IF status \in {"abandoned", "pending"} THEN Active
                   ELSE {"running"}
        s1 == [s EXCEPT !.db = change_status(@, t, status, require)]
    IN  IF status \in {"pass", "fail"}
        THEN [cancel_proof_tasks(s1, t.name, TRUE)
                EXCEPT !.recomputes = Append(@, s.status_ticks)]
        ELSE s1

\* ProofStatusEvent(t, status).emit(), handled before emit() returns
emit(s, t, status) ==
    proof_event_handler([s EXCEPT !.events[t] = Append(@, status)], t, status)

\* Solvers._error_handler that reports a cancellation as an error
_error_handler_cancel_error(s, t, err) ==
    IF err = "TaskFailed" THEN emit(s, t, "error")
    ELSE IF ~s.already_solved[t] THEN emit(s, t, "error")
    ELSE s

\* Solvers._error_handler that ignores already_solved
_error_handler_always(s, t, err) ==
    IF err = "TaskFailed" THEN emit(s, t, "error") ELSE emit(s, t, "pending")

\* Solvers._error_handler for an error of the solver task t itself
_error_handler(s, t, err) ==
    IF err = "TaskFailed" THEN emit(s, t, "error")
    ELSE IF ~s.already_solved[t] THEN emit(s, t, "pending")
    ELSE s

\* the status map of a usefulness recompute: the task vertices take the
\* reduced statuses of the store, then iterate, mark_sinks_as_useful and
\* iterate_useful
RECURSIVE set_task_statuses(_, _, _, _)
set_task_statuses(g, m, keys, reduced) ==
    IF keys = <<>> THEN m
    ELSE set_task_statuses(g,
            set_status(g, m, Head(keys),
                IF Head(keys).name \in DOMAIN reduced
                THEN reduced[Head(keys).name] ELSE "pending"),
            Tail(keys), reduced)

computed_status(g, reduced) ==
    LET m == iterate(g, set_task_statuses(g, IvyStatusMap(g), g.tasks, reduced))
    IN  iterate_useful(g, mark_sinks_as_useful(g, m))

\* the names whose task vertex is active and not useful
unneeded_names(g, m) ==
    {key.name : key \in {k \in Range(g.tasks) :
        map_status(g, m, k) \in Active /\ ~map_useful(g, m, k)}}

\* the same for the graph of the design, by the reduced statuses of P and Q
SchedUnneeded ==
    [reduced \in [Names -> Status] |->
        unneeded_names(SchedGraph, computed_status(SchedGraph, reduced))]

RECURSIVE cancel_names(_, _)
cancel_names(s, names) ==
    IF names = {} THEN s
    ELSE LET n == CHOOSE n \in names : TRUE
         IN  cancel_names(cancel_proof_tasks(s, n, FALSE), names \ {n})

\* a usefulness recompute scheduled with the tick snapshot runs
usefulness_recompute(s, snapshot) ==
    IF s.status_ticks # snapshot THEN s
    ELSE LET names == SchedUnneeded[reduced_status(s.db)]
             s1 == [s EXCEPT
                      !.status_ticks = @ + 1,
                      !.unneeded = @ \cup {t \in Tasks : s.db[t] \in Active /\ t.name \in names}]
         IN  cancel_names(s1, names)

(***************************************************************************)
(* The steps of a run.                                                     *)
(***************************************************************************)
\* the orders in which the proof tasks of the design can be listed
DispatchOrders(tasks) ==
    {q \in [1..Cardinality(tasks) -> tasks] : Range(q) = tasks}

RECURSIVE dispatch_all(_, _)
dispatch_all(s, order) ==
    IF order = <<>> THEN s
    ELSE dispatch_all(dispatch_proof_task(s, Head(order)), Tail(order))

\* run_command: the pending tasks become scheduled and are dispatched, in
\* the order of the list of proof tasks
RunCommand(order) ==
    /\ ~dispatched
    /\ dispatched' = TRUE
    /\ LET non_pending == {t \in Range(order) : db[t] # "pending"}
           scheduled == SelectSeq(order, LAMBDA t : t \notin non_pending)
           s == [SchedState EXCEPT
                   !.db = [t \in Tasks |->
                             IF t \in Range(scheduled) THEN "scheduled" ELSE @[t]]]
       IN  SchedStep(dispatch_all(s, scheduled))
    /\ UNCHANGED <<wlock, conn, faults>>

\* once cancel() was called on a task, the next thing the task sees at its
\* suspension point is the cancellation
CanRun(t) ==
    /\ dispatched
    /\ ~cancel_req[t]

\* on_run that starts on_solve without emitting running
Start_silent(t) ==
    /\ CanRun(t)
    /\ task_state[t] = "waiting"
    /\ t \in depends_on_sentinel[t.name] => _priority_sentinels[t.name] = "done"
    /\ SchedStep([SchedState EXCEPT !.task_state[t] = "running"])
    /\ UNCHANGED <<dispatched, wlock, conn, faults>>

\* on_run starts once the sentinel the task depends on is done: it emits
\* running and awaits on_solve
Start(t) ==
    /\ CanRun(t)
    /\ task_state[t] = "waiting"
    /\ t \in depends_on_sentinel[t.name] => _priority_sentinels[t.name] = "done"
    /\ SchedStep(emit([SchedState EXCEPT !.task_state[t] = "running"], t, "running"))
    /\ UNCHANGED <<dispatched, wlock, conn, faults>>

\* on_solve returns status: solver_finished is set, the status is emitted
\* and the task is done
Finish(t, status) ==
    /\ CanRun(t)
    /\ task_state[t] = "running"
    /\ LET s == emit([SchedState EXCEPT !.solver_finished[t] = TRUE], t, status)
       IN  SchedStep([s EXCEPT !.task_state[t] = "done"])
    /\ UNCHANGED <<dispatched, wlock, conn, faults>>

\* on_solve raises: the task fails with TaskFailed
Raise(t) ==
    /\ CanRun(t)
    /\ task_state[t] = "running"
    /\ SchedStep(_error_handler([SchedState EXCEPT !.task_state[t] = "failed"],
                                t, "TaskFailed"))
    /\ UNCHANGED <<dispatched, wlock, conn, faults>>

\* a requested cancellation reaches the task at its suspension point
Cancelled(t) ==
    /\ dispatched
    /\ cancel_req[t]
    /\ task_state[t] \in {"waiting", "running"}
    /\ SchedStep(_error_handler([SchedState EXCEPT !.task_state[t] = "cancelled"],
                                t, "TaskCancelled"))
    /\ UNCHANGED <<dispatched, wlock, conn, faults>>

\* the sentinel of n ends: done when all the tasks it depends on are done,
\* failed or cancelled when one of them is
SentinelEnds(n, outcome) ==
    /\ dispatched
    /\ _priority_sentinels[n] = "waiting"
    /\ CASE outcome = "done" ->
              \A t \in sentinel_depends_on[n] : task_state[t] = "done"
         [] outcome = "failed" ->
              \E t \in sentinel_depends_on[n] : task_state[t] = "failed"
         [] outcome = "cancelled" ->
              \E t \in sentinel_depends_on[n] : task_state[t] = "cancelled"
    /\ _priority_sentinels' = [_priority_sentinels EXCEPT ![n] = outcome]
    /\ UNCHANGED <<dbvars, dispatched, priority, task_state, cancel_req,
                   solver_finished, already_solved, _tasks,
                   _positive_priority_tasks, _negative_priority_tasks,
                   sentinel_depends_on, depends_on_sentinel, status_ticks,
                   recomputes, events, unneeded>>

\* a task that waits for a sentinel fails or is cancelled with it, unless
\* its own cancellation was requested before
DependencyEnds(t) ==
    /\ CanRun(t)
    /\ task_state[t] = "waiting"
    /\ t \in depends_on_sentinel[t.name]
    /\ _priority_sentinels[t.name] \in {"failed", "cancelled"}
    /\ LET failed == _priority_sentinels[t.name] = "failed"
           s == [SchedState EXCEPT
                   !.task_state[t] = IF failed THEN "failed" ELSE "cancelled"]
       IN  SchedStep(_error_handler(s, t,
                        IF failed THEN "TaskFailed" ELSE "TaskCancelled"))
    /\ UNCHANGED <<dispatched, wlock, conn, faults>>

\* the i-th scheduled usefulness recompute runs
Recompute(i) ==
    /\ dispatched
    /\ i \in 1..Len(recomputes)
    /\ LET s == [SchedState EXCEPT
                   !.recomputes = SubSeq(@, 1, i - 1) \o SubSeq(@, i + 1, Len(@))]
       IN  SchedStep(usefulness_recompute(s, recomputes[i]))
    /\ UNCHANGED <<dispatched, wlock, conn, faults>>

\* the store after setup: a row per proof task of the design, all pending;
\* the solvers of the design have any priorities
Init ==
    /\ db \in {f \in [Tasks -> {"pending", NoRow}] :
                 \A t \in Tasks \ {TaskP3} : f[t] = "pending"}
    /\ wlock = 0
    /\ conn = [c \in Conns |-> IdleConn]
    /\ faults = 0
    /\ priority \in {f \in [Tasks -> {-1, 0, 1}] :
                       \A t \in Tasks : db[t] = NoRow => f[t] = 0}
    /\ SchedIdle
    /\ RunIdle /\ LeaseIdle /\ FnIdle

Next ==
    /\ \/ /\ ~dispatched
          /\ \E order \in DispatchOrders({t \in Tasks : db[t] # NoRow}) :
                RunCommand(order)
       \/ \E t \in Tasks :
             \/ Start(t)
             \/ \E status \in Verdicts : Finish(t, status)
             \/ Raise(t)
             \/ Cancelled(t)
             \/ DependencyEnds(t)
       \/ \E n \in Names, outcome \in {"done", "failed", "cancelled"} :
             SentinelEnds(n, outcome)
       \/ \E i \in 1..Len(recomputes) : Recompute(i)
    /\ UNCHANGED <<runvars, leasevars, fnvars>>

Spec == Init /\ [][Next]_vars

(***************************************************************************)
(* Properties of the scheduler (Spec).  Every run ends: what eventually    *)
(* holds is what holds once nothing is left to run.                        *)
(***************************************************************************)
Emitted(t, status) == \E i \in 1..Len(events[t]) : events[t][i] = status

SameName(t) == {u \in Tasks \ {t} : u.name = t.name}

\* nothing is left to run
Quiescent ==
    /\ dispatched
    /\ \A t \in Tasks : task_state[t] \in Terminal \cup {"none"}
    /\ \A n \in Names : _priority_sentinels[n] # "waiting"
    /\ recomputes = <<>>

\* C1: whatever the order of dispatch, a task of negative priority has
\* emitted running only if every dispatched task of positive priority of the
\* same name has ended (done, failed or cancelled).
C1_PriorityOrder ==
    \A t \in Tasks :
        (priority[t] < 0 /\ Emitted(t, "running")) =>
            \A u \in SameName(t) :
                (priority[u] > 0 /\ task_state[u] # "none") =>
                    task_state[u] \in Terminal

\* a negative task runs after two positive tasks of its name are done
C1_Witness ==
    \E t \in Tasks :
        /\ priority[t] < 0
        /\ task_state[t] = "running"
        /\ _priority_sentinels[t.name] = "done"
        /\ Cardinality({u \in SameName(t) :
                          priority[u] > 0 /\ task_state[u] = "done"}) = 2

C8_AlreadySolvedKeepsStatus ==
    [][\A t \in Tasks :
          (cancel_req'[t] /\ already_solved'[t]) =>
              (events'[t] = events[t] /\ db'[t] = db[t])]_vars

\* a running task was cancelled as already solved: its row still says running
C8_Witness ==
    \E t \in Tasks :
        /\ task_state[t] = "cancelled"
        /\ already_solved[t]
        /\ db[t] = "running"
        /\ events[t] = <<"running">>

\* proof P has the two solvers s1 of priority +1 and s2 of priority -1, and
\* s1 has returned pass
C9_Scenario ==
    /\ db[TaskP3] = NoRow
    /\ priority[TaskP1] = 1
    /\ priority[TaskP2] = -1
    /\ Emitted(TaskP1, "pass")

C29_ZeroIsNegative ==
    \A t \in Tasks :
        (priority[t] = 0 /\ Emitted(t, "running")) =>
            \A u \in SameName(t) :
                (priority[u] > 0 /\ task_state[u] # "none") =>
                    task_state[u] \in Terminal

\* a task of priority zero runs while a dispatched task of positive priority
\* of its name still waits, and no sentinel was made for the name
C29_ZeroRunsFirst ==
    \E t \in Tasks :
        /\ priority[t] = 0 /\ task_state[t] = "running"
        /\ _priority_sentinels[t.name] = "none"
        /\ \E u \in SameName(t) : priority[u] > 0 /\ task_state[u] = "waiting"

\* C32: the first event of a task is running and a verdict comes after it,
\* and the stored status of a task becomes pass, fail or unknown only from
\* running
C32_VerdictAfterRunning ==
    /\ [](\A t \in Tasks : \A i \in 1..Len(events[t]) :
            events[t][i] \in {"pass", "fail", "unknown"} =>
                i > 1 /\ events[t][1] = "running")
    /\ [][\A t \in Tasks :
            (db'[t] \in {"pass", "fail", "unknown"} /\ db'[t] # db[t]) =>
                db[t] = "running"]_vars

\* a task has emitted running and then unknown, and unknown is stored
C32_Witness ==
    \E t \in Tasks :
        /\ events[t] = <<"running", "unknown">>
        /\ db[t] = "unknown"
        /\ task_state[t] = "done"

\* C10: a task that a usefulness recompute found with an active status and
\* a task vertex that is not useful has the persisted status abandoned at
\* the end of the run.
C10_UnneededAbandoned ==
    Quiescent => \A t \in unneeded : db[t] = "abandoned"

Commands == {"run", "setup", "prove", "status"}

\* P asserts X1 and assumes X2, Q asserts X2 and assumes X1, no cross
CyclicDesign ==
    <<Proof("P", TRUE, <<>>, <<[name |-> "X2", cross |-> FALSE]>>,
            <<[name |-> "X1", local |-> FALSE]>>, <<>>),
      Proof("Q", TRUE, <<>>, <<[name |-> "X1", cross |-> FALSE]>>,
            <<[name |-> "X2", local |-> FALSE]>>, <<>>),
      Invariant("X1", FALSE),
      Invariant("X2", FALSE)>>

RunDesigns == {CyclicDesign, SchedDesign}

CyclicGraph == IvyStatusGraph(CyclicDesign)

\* App.data.proof_tasks of these designs
RunTasks == {TaskP1, TaskQ1}

\* the statuses the commands write to the store
Persisted == {"pending", "scheduled", "running", "pass", "fail", "unknown", "error"}

\* the statuses on_exit reads from the status file of sby
SbyStatus == {"pass", "fail", "unknown", "error"}

unreachable_sinks(g, m) ==
    {key \in Range(g.sinks) : map_status(g, m, key) = "unreachable"}

sink_status(g, m) ==
    {[key |-> key, status |-> map_status(g, m, key)] : key \in Range(g.sinks)}

\* check_proof_cycles: the sinks that are unreachable in the fresh status map
check_proof_cycles(g) == unreachable_sinks(g, iterate(g, IvyStatusMap(g)))

\* the same for the designs of the model
CycleWarnings(data) ==
    IF data = CyclicDesign THEN check_proof_cycles(CyclicGraph)
    ELSE check_proof_cycles(SchedGraph)

\* run_status_task: the statuses of the sinks, the task vertices set to the
\* reduced statuses of the store
run_status_task(g, reduced) ==
    sink_status(g, iterate(g, set_task_statuses(g, IvyStatusMap(g), g.tasks, reduced)))

\* the same for the designs of the model, by the reduced statuses of P and Q
CyclicReports ==
    [reduced \in [Names -> Persisted] |-> run_status_task(CyclicGraph, reduced)]

SchedReports ==
    [reduced \in [Names -> Persisted] |-> run_status_task(SchedGraph, reduced)]

StatusReports(data) ==
    IF data = CyclicDesign THEN CyclicReports ELSE SchedReports

\* initialize_status: a pending row for each proof task
initialize_status(table, names) ==
    [t \in Tasks |-> IF t \in names THEN "pending" ELSE table[t]]

\* setup_workdir for run and setup: the work directory is made, after an
\* existing one was removed with -f, and the store in it is created empty
setup_workdir(table) == EmptyTable

\* the commands that schedule and dispatch
DispatchCommands_all == Commands

DispatchCommands == {"run", "prove"}

\* required_status without the test of reset_schedule
required_status_pending(reset) == {"pending"}

\* required_status that admits every status
required_status_any(reset) == Persisted

required_status(reset) ==
    IF reset THEN {"pending", "scheduled", "running"} ELSE {"pending"}

\* a status task that depends on no proof task
status_task_dependencies_none(states) == {}

\* status_task.depends_on(proof_task), for every proof task created
status_task_dependencies(states) == {t \in Tasks : states[t] # "none"}

\* proof_event_handler that stores the status whatever the row holds
main_proof_event_handler_forced(table, t, status) ==
    [table EXCEPT ![t] = status]

\* proof_event_handler of main.py
main_proof_event_handler(table, t, status) ==
    change_status(table, t, status,
                  IF status = "running" THEN {"scheduled"} ELSE {"running"})

\* proof_task_error_handler that ignores a failed task
proof_task_error_handler_ignores(table, t, err) ==
    IF err = "TaskFailed" THEN table
    ELSE change_status(table, t, "pending", {"running", "scheduled"})

proof_task_error_handler(table, t, err) ==
    IF err = "TaskFailed"
    THEN change_status(table, t, "error", {"running", "scheduled"})
    ELSE change_status(table, t, "pending", {"running", "scheduled"})

\* what the commands leave alone
run_frame ==
    <<wlock, conn, faults, priority, solver_finished, already_solved, _tasks,
      _positive_priority_tasks, _negative_priority_tasks, _priority_sentinels,
      sentinel_depends_on, depends_on_sentinel, status_ticks, recomputes,
      unneeded, leasevars, input, output, command, reset_schedule, force,
      db_before>>

\* main from setup_workdir on: for run and setup the work directory must be
\* new or -f given, otherwise the program ends there; then task_loop_main:
\* the warnings, then run_command with the rows initialized (run, setup),
\* the bulk transition to scheduled and a proof task for every name that
\* was transitioned (run, prove)
task_loop_main ==
    /\ ~dispatched
    /\ command \in {"run", "setup"} => (db = EmptyTable \/ force)
    /\ dispatched' = TRUE
    /\ warnings' = IF command \in {"run", "setup"} THEN CycleWarnings(input) ELSE {}
    /\ LET table == IF command \in {"run", "setup"}
                    THEN initialize_status(setup_workdir(db), RunTasks) ELSE db
           scheduled == IF command \in DispatchCommands
                        THEN {t \in RunTasks :
                                ~RequireMismatch(table[t], TRUE,
                                                 required_status(reset_schedule))}
                        ELSE {}
       IN  /\ db' = [t \in Tasks |-> IF t \in scheduled THEN "scheduled" ELSE table[t]]
           /\ task_state' = [t \in Tasks |-> IF t \in scheduled THEN "waiting" ELSE "none"]
           /\ prepare_design' = IF scheduled # {} THEN "waiting" ELSE "none"
    /\ status_task' = "waiting"
    /\ UNCHANGED <<run_frame, cancel_req, events, report>>

\* IvyPrepareDesign runs yosys
PrepareDesignRuns ==
    /\ prepare_design = "waiting"
    /\ prepare_design' = "running"
    /\ UNCHANGED <<run_frame, db, dispatched, task_state, cancel_req, events,
                   warnings, status_task, report>>

\* yosys exits: with a return code other than 0 the task fails
PrepareDesignExits(ok) ==
    /\ prepare_design = "running"
    /\ prepare_design' = IF ok THEN "done" ELSE "failed"
    /\ UNCHANGED <<run_frame, db, dispatched, task_state, cancel_req, events,
                   warnings, status_task, report>>

\* IvyProofTask.on_run: running is emitted and sby is started
ProofStart(t) ==
    /\ task_state[t] = "waiting" /\ ~cancel_req[t]
    /\ prepare_design = "done"
    /\ task_state' = [task_state EXCEPT ![t] = "running"]
    /\ events' = [events EXCEPT ![t] = Append(@, "running")]
    /\ db' = main_proof_event_handler(db, t, "running")
    /\ UNCHANGED <<run_frame, dispatched, cancel_req, warnings, prepare_design,
                   status_task, report>>

\* IvyProofTask.on_exit: the status read from the status file is emitted
ProofExit(t, status) ==
    /\ task_state[t] = "running" /\ ~cancel_req[t]
    /\ task_state' = [task_state EXCEPT ![t] = "done"]
    /\ events' = [events EXCEPT ![t] = Append(@, status)]
    /\ db' = main_proof_event_handler(db, t, status)
    /\ UNCHANGED <<run_frame, dispatched, cancel_req, warnings, prepare_design,
                   status_task, report>>

\* the proof task fails: it raises while it runs, or the design preparation
\* it depends on has failed
ProofFails(t) ==
    /\ ~cancel_req[t]
    /\ \/ task_state[t] = "running"
       \/ task_state[t] = "waiting" /\ prepare_design = "failed"
    /\ task_state' = [task_state EXCEPT ![t] = "failed"]
    /\ db' = proof_task_error_handler(db, t, "TaskFailed")
    /\ UNCHANGED <<run_frame, dispatched, cancel_req, events, warnings,
                   prepare_design, status_task, report>>

\* the program is interrupted: every task that has not ended is cancelled
Interrupt ==
    /\ status_task = "waiting"
    /\ status_task' = "cancelled"
    /\ prepare_design' = IF prepare_design \in {"waiting", "running"}
                         THEN "cancelled" ELSE prepare_design
    /\ cancel_req' = [t \in Tasks |-> task_state[t] \in {"waiting", "running"}]
    /\ UNCHANGED <<run_frame, db, dispatched, task_state, events, warnings, report>>

\* the cancellation reaches the proof task
ProofCancelled(t) ==
    /\ cancel_req[t]
    /\ task_state[t] \in {"waiting", "running"}
    /\ task_state' = [task_state EXCEPT ![t] = "cancelled"]
    /\ db' = proof_task_error_handler(db, t, "TaskCancelled")
    /\ UNCHANGED <<run_frame, dispatched, cancel_req, events, warnings,
                   prepare_design, status_task, report>>

\* the status task runs once every proof task it depends on is done:
\* run_status_task reports for run, prove and status
StatusTaskRuns ==
    /\ status_task = "waiting"
    /\ \A t \in status_task_dependencies(task_state) : task_state[t] = "done"
    /\ status_task' = "done"
    /\ report' = IF command \in {"run", "prove", "status"}
                 THEN Append(report, StatusReports(input)[reduced_status(db)])
                 ELSE report
    /\ UNCHANGED <<run_frame, db, dispatched, task_state, cancel_req, events,
                   warnings, prepare_design>>

\* a proof task the status task depends on has failed
StatusTaskAborted ==
    /\ status_task = "waiting"
    /\ \E t \in status_task_dependencies(task_state) : task_state[t] = "failed"
    /\ status_task' = "failed"
    /\ UNCHANGED <<run_frame, db, dispatched, task_state, cancel_req, events,
                   warnings, prepare_design, report>>

\* the program is started with a command on a design; run and setup create
\* the store, in a new work directory or in place of the one earlier
\* commands left; prove and status find the rows earlier commands left
InitRun ==
    /\ command \in Commands
    /\ reset_schedule \in (IF command = "prove" THEN BOOLEAN ELSE {FALSE})
    /\ force \in (IF command \in {"run", "setup"} THEN BOOLEAN ELSE {FALSE})
    /\ input \in RunDesigns
    /\ output = <<>>
    /\ db \in (IF command \in {"run", "setup"} THEN {EmptyTable} ELSE {}) \cup
              {f \in [Tasks -> Persisted \cup {NoRow}] :
                  \A t \in Tasks : f[t] = NoRow <=> t \notin RunTasks}
    /\ db_before = db
    /\ warnings = {}
    /\ prepare_design = "none"
    /\ status_task = "none"
    /\ report = <<>>
    /\ wlock = 0
    /\ conn = [c \in Conns |-> IdleConn]
    /\ faults = 0
    /\ priority = [t \in Tasks |-> 0]
    /\ SchedIdle
    /\ LeaseIdle

NextRun ==
    \/ task_loop_main
    \/ PrepareDesignRuns
    \/ \E ok \in BOOLEAN : PrepareDesignExits(ok)
    \/ \E t \in Tasks :
          \/ ProofStart(t)
          \/ \E status \in SbyStatus : ProofExit(t, status)
          \/ ProofFails(t)
          \/ ProofCancelled(t)
    \/ Interrupt
    \/ StatusTaskRuns
    \/ StatusTaskAborted

SpecRun == InitRun /\ [][NextRun]_vars

(***************************************************************************)
(* Properties of the commands.                                             *)
(***************************************************************************)

C14_DispatchedIffTransitioned ==
    (dispatched /\ command \in {"run", "prove"}) =>
        \A t \in RunTasks :
            LET before == IF command = "run" THEN "pending" ELSE db_before[t]
                selected == IF reset_schedule
                            THEN before \in {"pending", "scheduled", "running"}
                            ELSE before = "pending"
            IN  /\ task_state[t] # "none" <=> selected
                /\ task_state[t] = "waiting" => db[t] = "scheduled"
                /\ task_state[t] = "none" => db[t] = before

\* prove without --reset-schedule has ended: the task an interrupted run left
\* scheduled is still scheduled and was not dispatched, the pending one ran
C14_Witness ==
    /\ command = "prove" /\ ~reset_schedule /\ status_task = "done"
    /\ \E t, u \in RunTasks :
          /\ db_before[t] = "scheduled" /\ db[t] = "scheduled" /\ task_state[t] = "none"
          /\ db_before[u] = "pending" /\ task_state[u] = "done" /\ db[u] = "pass"

\* prove with --reset-schedule dispatches the tasks found scheduled and running
C14_WitnessReset ==
    /\ command = "prove" /\ reset_schedule
    /\ \E t, u \in RunTasks :
          /\ db_before[t] = "scheduled" /\ task_state[t] = "done"
          /\ db_before[u] = "running" /\ task_state[u] = "done"

\* C16: run on the cyclic pair of proofs, whose sinks check_proof_cycles
\* reported unreachable, transitions none of their tasks to scheduled and
\* dispatches none of them
C16_CyclicNeverScheduled ==
    (command = "run" /\ input = CyclicDesign /\ dispatched) =>
        /\ warnings # {}
        /\ \A t \in RunTasks : db[t] # "scheduled" /\ task_state[t] = "none"

\* C17: a run or prove command has produced its status report only if every
\* proof task it dispatched has ended, and then the status task has run
C17_ReportAfterTasks ==
    (command \in {"run", "prove"} /\ report # <<>>) =>
        /\ status_task = "done"
        /\ \A t \in Tasks : task_state[t] \notin {"waiting", "running"}

\* the report of a run whose two proof tasks ran to a verdict
C17_Witness ==
    /\ command = "run" /\ Len(report) = 1
    /\ \A t \in RunTasks : task_state[t] = "done" /\ Len(events[t]) = 2

\* C18: the status command changes no row and dispatches nothing; the setup
\* command leaves every task pending, dispatches nothing and reports nothing
C18_StatusAndSetupFrame ==
    /\ command = "status" =>
          /\ db = db_before
          /\ prepare_design = "none"
          /\ \A t \in Tasks : task_state[t] = "none" /\ events[t] = <<>>
    /\ (command = "setup" /\ dispatched) =>
          /\ \A t \in RunTasks : db[t] = "pending"
          /\ prepare_design = "none"
          /\ report = <<>>
          /\ \A t \in Tasks : task_state[t] = "none" /\ events[t] = <<>>

\* the status command has reported on a store with a pending and a running row
C18_Witness ==
    /\ command = "status" /\ status_task = "done" /\ Len(report) = 1
    /\ \E t, u \in RunTasks : db[t] = "pending" /\ db[u] = "running"

\* the setup command has ended
C18_WitnessSetup ==
    /\ command = "setup" /\ status_task = "done"
    /\ \A t \in RunTasks : db[t] = "pending"

\* the persisted verdicts
PersistedVerdicts == {"pass", "fail", "unknown", "error"}

\* C38, as stated: no step changes a row that holds pass, fail, unknown or
\* error, and a task whose row held one when the command was started is
\* never dispatched
C38_VerdictNeverChanges ==
    /\ [][\A t \in Tasks : db[t] \in PersistedVerdicts => db'[t] = db[t]]_vars
    /\ [](\A t \in Tasks : db_before[t] \in PersistedVerdicts => task_state[t] = "none")

\* C38, amended: no step of a started command changes a row that holds a
\* verdict, and a status event or an error handler called for its task
\* would leave the store as it is; prove, with or without --reset-schedule, and status
\* leave it as it is and do not dispatch its task; run and setup on an
\* existing work directory end at once without -f, and with -f replace the
\* store, every task pending, which run then dispatches
C38_VerdictAbsorbing ==
    /\ [][\A t \in Tasks :
            (db[t] \in PersistedVerdicts /\ (dispatched \/ command \in {"prove", "status"})) =>
                db'[t] = db[t]]_vars
    /\ [](\A t \in Tasks :
            (db_before[t] \in PersistedVerdicts /\ command \in {"prove", "status"}) =>
                db[t] = db_before[t] /\ task_state[t] = "none" /\ events[t] = <<>>)
    /\ [](\A t \in RunTasks : db[t] \in PersistedVerdicts =>
            /\ \A status \in Persisted : main_proof_event_handler(db, t, status) = db
            /\ \A err \in {"TaskFailed", "TaskCancelled"} :
                  proof_task_error_handler(db, t, err) = db)
    /\ []((command \in {"run", "setup"} /\ db_before # EmptyTable /\ ~force) =>
            ~dispatched /\ db = db_before)
    /\ []((command = "run" /\ db_before # EmptyTable /\ dispatched) =>
            /\ force
            /\ \A t \in RunTasks : task_state[t] # "none")

\* prove --reset-schedule has ended on a store that held pass for one task
\* and scheduled for the other: the first is as it was and was not
\* dispatched, the second ran to a verdict
C38_Witness ==
    /\ command = "prove" /\ reset_schedule /\ status_task = "done"
    /\ \E t, u \in RunTasks :
          /\ db_before[t] = "pass" /\ db[t] = "pass" /\ task_state[t] = "none"
          /\ db_before[u] = "scheduled" /\ task_state[u] = "done" /\ db[u] = "fail"

\* run -f on a store that held pass: the task was dispatched again and
\* failed to error
C38_WitnessForce ==
    /\ command = "run" /\ force
    /\ \E t \in RunTasks :
          db_before[t] = "pass" /\ task_state[t] = "failed" /\ db[t] = "error"

(***************************************************************************)
(* solver/sby.py: the job lease.  main passes -j to the job server client; *)
(* a solver task with use_lease set takes one lease before its on_run and  *)
(* gives it back when it ends, and IvySby.on_solve starts sby as a process *)
(* that takes no lease of its own.  Ending a task, by cancellation or by   *)
(* an error, ends the process it started.                                  *)
(***************************************************************************)
\* -j N
Jobs == 1

\* IvySby without the lease
use_lease_unset(t) == FALSE

\* IvySby.__init__: self.use_lease = True
use_lease(t) == TRUE

\* the sby processes that are live
LiveProcesses == {t \in Tasks : sby_proc[t] = "running"}

lease_frame == <<dbvars, runvars, fnvars, dispatched, priority, solver_finished,
                 already_solved, _tasks, _positive_priority_tasks,
                 _negative_priority_tasks, _priority_sentinels,
                 sentinel_depends_on, depends_on_sentinel, status_ticks,
                 recomputes, events, unneeded>>

\* the solver task is created and waits for its turn
SolverCreated(t) ==
    /\ task_state[t] = "none"
    /\ task_state' = [task_state EXCEPT ![t] = "waiting"]
    /\ UNCHANGED <<lease_frame, cancel_req, leasevars>>

\* the task takes a lease, if it uses one and one is free, and on_run starts
LeaseAcquired(t) ==
    /\ task_state[t] = "waiting" /\ ~cancel_req[t]
    /\ use_lease(t) => Cardinality(lease_held) < Jobs
    /\ lease_held' = IF use_lease(t) THEN lease_held \cup {t} ELSE lease_held
    /\ task_state' = [task_state EXCEPT ![t] = "running"]
    /\ UNCHANGED <<lease_frame, cancel_req, sby_proc>>

\* on_solve: sby is started with use_lease = False
SbySpawned(t) ==
    /\ task_state[t] = "running" /\ ~cancel_req[t]
    /\ sby_proc[t] = "none"
    /\ sby_proc' = [sby_proc EXCEPT ![t] = "running"]
    /\ UNCHANGED <<lease_frame, task_state, cancel_req, lease_held>>

\* sby exits
SbyExited(t) ==
    /\ sby_proc[t] = "running"
    /\ sby_proc' = [sby_proc EXCEPT ![t] = "exited"]
    /\ UNCHANGED <<lease_frame, task_state, cancel_req, lease_held>>

\* on_solve returns after sby_proc.finished: the task is done, the lease free
SolveReturns(t) ==
    /\ task_state[t] = "running" /\ ~cancel_req[t]
    /\ sby_proc[t] = "exited"
    /\ task_state' = [task_state EXCEPT ![t] = "done"]
    /\ lease_held' = lease_held \ {t}
    /\ UNCHANGED <<lease_frame, cancel_req, sby_proc>>

\* on_solve raises: the task fails, its process is ended, the lease free
SolveRaises(t) ==
    /\ task_state[t] = "running" /\ ~cancel_req[t]
    /\ task_state' = [task_state EXCEPT ![t] = "failed"]
    /\ sby_proc' = [sby_proc EXCEPT ![t] = IF @ = "running" THEN "killed" ELSE @]
    /\ lease_held' = lease_held \ {t}
    /\ UNCHANGED <<lease_frame, cancel_req>>

\* IvySolver.cancel
SolverCancel(t) ==
    /\ task_state[t] \in {"waiting", "running"} /\ ~cancel_req[t]
    /\ cancel_req' = [cancel_req EXCEPT ![t] = TRUE]
    /\ UNCHANGED <<lease_frame, task_state, leasevars>>

\* the cancellation reaches the task: its process is ended, the lease free
SolverCancelled(t) ==
    /\ task_state[t] \in {"waiting", "running"} /\ cancel_req[t]
    /\ task_state' = [task_state EXCEPT ![t] = "cancelled"]
    /\ sby_proc' = [sby_proc EXCEPT ![t] = IF @ = "running" THEN "killed" ELSE @]
    /\ lease_held' = lease_held \ {t}
    /\ UNCHANGED <<lease_frame, cancel_req>>

\* no solver task created yet, no lease taken
InitLease ==
    /\ db = EmptyTable
    /\ wlock = 0
    /\ conn = [c \in Conns |-> IdleConn]
    /\ faults = 0
    /\ priority = [t \in Tasks |-> 0]
    /\ SchedIdle
    /\ RunIdle /\ LeaseIdle /\ FnIdle

NextLease ==
    \E t \in Tasks :
        \/ SolverCreated(t)
        \/ LeaseAcquired(t)
        \/ SbySpawned(t)
        \/ SbyExited(t)
        \/ SolveReturns(t)
        \/ SolveRaises(t)
        \/ SolverCancel(t)
        \/ SolverCancelled(t)

SpecLease == InitLease /\ [][NextLease]_vars

CrossDesign ==
    <<Proof("P", TRUE, <<>>, <<[name |-> "X", cross |-> TRUE]>>,
            <<[name |-> "Y", local |-> FALSE]>>, <<>>),
      Proof("Q", TRUE, <<>>, <<>>, <<[name |-> "X", local |-> FALSE]>>, <<>>),
      Invariant("X", FALSE),
      Invariant("Y", FALSE)>>

CrossGraph == IvyStatusGraph(CrossDesign)

\* P proves Y with X as a cross assumption, Q proves X locally with Y as a
\* cross assumption: assume_proof Q has no incoming edge
LocalDesign ==
    <<Proof("P", TRUE, <<>>, <<[name |-> "X", cross |-> TRUE]>>,
            <<[name |-> "Y", local |-> FALSE]>>, <<>>),
      Proof("Q", TRUE, <<>>, <<[name |-> "Y", cross |-> TRUE]>>,
            <<[name |-> "X", local |-> TRUE]>>, <<>>),
      Invariant("X", FALSE),
      Invariant("Y", FALSE)>>

LocalGraph == IvyStatusGraph(LocalDesign)

MapDesigns == {CyclicDesign, CrossDesign, LocalDesign, SchedDesign}

design_graph(data) ==
    IF data = CyclicDesign THEN CyclicGraph
    ELSE IF data = CrossDesign THEN CrossGraph
    ELSE IF data = LocalDesign THEN LocalGraph
    ELSE SchedGraph

\* sigma <= sigma2 pointwise
status_leq(sigma, sigma2) ==
    \A n \in DOMAIN sigma : status_index(sigma[n]) <= status_index(sigma2[n])

\* a fresh status map, the task vertices set, iterate()
iterated_map(g, sigma) ==
    iterate(g, set_task_statuses(g, IvyStatusMap(g), g.tasks, sigma))

iterated_status(g, sigma) == iterated_map(g, sigma).current_status

\* mark_sinks_as_useful() and iterate_useful() on an iterated map
useful_map(g, m) == iterate_useful(g, mark_sinks_as_useful(g, m))

\* mu, mu2: the statuses after iterate() from sigma and from sigma2; map: the
\* whole map after iterate() from sigma; again: that map after a second
\* iterate(); marked: map after mark_sinks_as_useful(); marked_again: marked
\* after a second mark_sinks_as_useful(); useful_map: marked after
\* iterate_useful(); useful: its useful flags; set_again: the pairs of a
\* vertex and useful_map after one more _set_useful of that vertex
Iterate ==
    /\ output = <<>>
    /\ \E g \in {design_graph(input.data)} :
         \E m \in {iterated_map(g, input.sigma)} :
          \E marked \in {mark_sinks_as_useful(g, m)} :
           \E um \in {iterate_useful(g, marked)} :
            output' = [mu |-> m.current_status,
                       mu2 |-> iterated_status(g, input.sigma2),
                       map |-> m,
                       again |-> iterate(g, m),
                       marked |-> marked,
                       marked_again |-> mark_sinks_as_useful(g, marked),
                       useful_map |-> um,
                       useful |-> um.current_useful,
                       set_again |-> {<<v, _set_useful(g, um, v)>> : v \in DOMAIN um.current_useful}]
    /\ UNCHANGED <<dbvars, schedvars, runvars, leasevars, input>>

InitMap ==
    /\ input \in {i \in [data : MapDesigns, sigma : [Names -> Status],
                         sigma2 : [Names -> Status]] :
                     status_leq(i.sigma, i.sigma2)}
    /\ output = <<>>
    /\ db = EmptyTable
    /\ wlock = 0
    /\ conn = [c \in Conns |-> IdleConn]
    /\ faults = 0
    /\ priority = [t \in Tasks |-> 0]
    /\ SchedIdle
    /\ RunIdle /\ LeaseIdle

NextMap == Iterate

SpecMap == InitMap /\ [][NextMap]_vars

\* C15: for the cyclic pair of proofs every sink is unreachable after
\* iterate(), whatever the statuses of the two tasks
C15_CyclicSinksUnreachable ==
    (output # <<>> /\ input.data = CyclicDesign) =>
        /\ Len(CyclicGraph.sinks) = 4
        /\ \A i \in 1..Len(CyclicGraph.sinks) :
              /\ output.mu[CyclicGraph.order[CyclicGraph.sinks[i]]] = "unreachable"
              /\ output.mu2[CyclicGraph.order[CyclicGraph.sinks[i]]] = "unreachable"

\* the cyclic pair with both tasks pass has been iterated
C15_Witness ==
    /\ output # <<>> /\ input.data = CyclicDesign
    /\ \A n \in Names : input.sigma[n] = "pass"
    /\ output.mu[CyclicGraph.order[StatusKey("task", "P")]] = "pass"
    /\ output.mu[CyclicGraph.order[StatusKey("proof", "P")]] = "unreachable"
    /\ output.mu[CyclicGraph.order[StatusKey("proof", "Q")]] = "unreachable"

C20_StaleCross ==
    /\ output # <<>> /\ input.data = CrossDesign
    /\ input.sigma = [n \in Names |-> IF n = "P" THEN "error" ELSE "unreachable"]
    /\ input.sigma2 = [n \in Names |-> IF n = "P" THEN "error" ELSE "abandoned"]
    /\ output.mu[CrossGraph.order[StatusKey("entity", "X")]] = "unreachable"
    /\ output.mu[CrossGraph.order[StatusKey("cross", "X")]] = "pass"
    /\ output.mu[CrossGraph.order[StatusKey("proof", "P")]] = "error"
    /\ output.mu2[CrossGraph.order[StatusKey("cross", "X")]] = "abandoned"
    /\ output.mu2[CrossGraph.order[StatusKey("proof", "P")]] = "abandoned"

\* the indices of the entity vertices that have a cross vertex
crossed_entities(g) == {i \in DOMAIN g.order_list : g.cross_order_map[i] # NoIndex}

\* C21: after iterate() the cross vertex of every name that has one carries
\* the status of the entity vertex of that name, also when the entity vertex
\* is still unreachable
C21_CrossDeferral ==
    output # <<>> =>
        \E g \in {design_graph(input.data)} :
            \A i \in crossed_entities(g) :
                output.mu[g.cross_order_map[i]] = output.mu[i]

\* C22, as stated: after iterate() every vertex of non_entity_sources is pass
\* and every task vertex has the status the valuation gave it
C22_SourcePinning ==
    output # <<>> =>
        \E g \in {design_graph(input.data)} :
            /\ \A i \in 1..Len(g.non_entity_sources) :
                  output.mu[g.order[g.non_entity_sources[i]]] = "pass"
            /\ \A i \in 1..Len(g.tasks) :
                  output.mu[g.order[g.tasks[i]]] = input.sigma[g.tasks[i].name]

\* C22, amended: after iterate() every vertex of non_entity_sources that is
\* not a cross vertex is pass, and every task vertex has the status the
\* valuation gave it
C22_NonCrossSourcePinning ==
    output # <<>> =>
        \E g \in {design_graph(input.data)} :
            /\ \A i \in 1..Len(g.non_entity_sources) :
                  g.non_entity_sources[i].type # "cross" =>
                      output.mu[g.order[g.non_entity_sources[i]]] = "pass"
            /\ \A i \in 1..Len(g.tasks) :
                  output.mu[g.order[g.tasks[i]]] = input.sigma[g.tasks[i].name]

\* LocalDesign iterated with P failed and Q pending: assume_proof Q is a
\* source that is not a cross vertex and is pass, the cross vertex of Y is a
\* source too and carries the fail of entity Y
C22_Witness ==
    /\ output # <<>> /\ input.data = LocalDesign
    /\ input.sigma = [n \in Names |-> IF n = "P" THEN "fail" ELSE "pending"]
    /\ \E i \in 1..Len(LocalGraph.non_entity_sources) :
          LocalGraph.non_entity_sources[i] = StatusKey("assume_proof", "Q")
    /\ \E i \in 1..Len(LocalGraph.non_entity_sources) :
          LocalGraph.non_entity_sources[i] = StatusKey("cross", "Y")
    /\ output.mu[LocalGraph.order[StatusKey("assume_proof", "Q")]] = "pass"
    /\ output.mu[LocalGraph.order[StatusKey("cross", "Y")]] = "fail"
    /\ output.mu[LocalGraph.order[StatusKey("task", "P")]] = "fail"
    /\ output.mu[LocalGraph.order[StatusKey("task", "Q")]] = "pending"

\* C23: after iterate() every vertex with an incoming edge has the status_or
\* of its predecessors if it is an entity vertex and their status_and if it
\* is a proof, assume_proof or export vertex, inside cycles too
C23_CombinatorLaw ==
    output # <<>> =>
        \E g \in {design_graph(input.data)} :
            \A i \in DOMAIN g.order_list :
                g.in_edges_list[i] # {} =>
                    /\ g.order_list[i].type \in {"entity", "proof", "assume_proof", "export"}
                    /\ output.mu[i] =
                          IF g.order_list[i].type = "entity"
                          THEN status_or({output.mu[e] : e \in g.in_edges_list[i]})
                          ELSE status_and({output.mu[e] : e \in g.in_edges_list[i]})

\* SchedDesign with P pass and Q pending: entity X joins to pass; and the
\* cyclic pair with both tasks pass: the proofs in the cycle are unreachable
C23_Witness ==
    /\ output # <<>> /\ input.data = SchedDesign
    /\ input.sigma = [n \in Names |-> IF n = "P" THEN "pass" ELSE "pending"]
    /\ Cardinality(SchedGraph.in_edges_list[SchedGraph.order[StatusKey("entity", "X")]]) = 2
    /\ output.mu[SchedGraph.order[StatusKey("entity", "X")]] = "pass"
    /\ output.mu[SchedGraph.order[StatusKey("proof", "Q")]] = "pending"

\* the cyclic pair has been iterated: proof P meets its task, which is
\* pass, and the entity X2 of the cycle, which is unreachable
C23_WitnessCycle ==
    /\ output # <<>> /\ input.data = CyclicDesign
    /\ input.sigma = [n \in Names |-> "pass"]
    /\ CyclicGraph.order[StatusKey("entity", "X2")]
          \in CyclicGraph.in_edges_list[CyclicGraph.order[StatusKey("proof", "P")]]
    /\ output.mu[CyclicGraph.order[StatusKey("entity", "X2")]] = "unreachable"

\* C25: a second iterate() right after the first leaves every status, every
\* useful flag and both queues as they were
C25_IterateIdempotent ==
    output # <<>> => output.again = output.map

\* CrossDesign with Q failed has been iterated: the first iterate() brought
\* the fail of entity X to the cross vertex and to proof P, and emptied the
\* queues
C25_Witness ==
    /\ output # <<>> /\ input.data = CrossDesign
    /\ input.sigma = [n \in Names |-> IF n = "P" THEN "pending" ELSE "fail"]
    /\ output.map.current_status[CrossGraph.order[StatusKey("cross", "X")]] = "fail"
    /\ output.map.current_status[CrossGraph.order[StatusKey("proof", "P")]] = "fail"
    /\ output.map.dirty_queue = {} /\ output.map.cross_dirty_list = <<>>
    /\ output.again.current_status = output.mu

\* the vertex is a sink that is not a proof vertex
non_proof_sink(g, v) ==
    \E i \in 1..Len(g.sinks) : g.order[g.sinks[i]] = v /\ g.sinks[i].type # "proof"

\* v has an edge to a useful vertex, or is the entity of a useful cross vertex
feeds_useful(g, useful, v) ==
    \E w \in DOMAIN useful :
        useful[w] /\ (v \in g.in_edges_list[w] \/ g.cross_order_inv_map[w] = v)

\* C26, as stated: after iterate(), mark_sinks_as_useful() and
\* iterate_useful() a vertex is useful iff it is a non-proof sink, or it
\* feeds a useful vertex and is neither pass nor fail
C26_UsefulLaw ==
    output # <<>> =>
        \E g \in {design_graph(input.data)} :
            \A v \in DOMAIN output.useful :
                output.useful[v] <=>
                    \/ non_proof_sink(g, v)
                    \/ feeds_useful(g, output.useful, v) /\ output.mu[v] \notin {"pass", "fail"}

\* C26, amended: a vertex is useful iff it is neither pass nor fail and it
\* is a non-proof sink or feeds a useful vertex
C26_UndecidedUsefulLaw ==
    output # <<>> =>
        \E g \in {design_graph(input.data)} :
            \A v \in DOMAIN output.useful :
                output.useful[v] <=>
                    /\ output.mu[v] \notin {"pass", "fail"}
                    /\ non_proof_sink(g, v) \/ feeds_useful(g, output.useful, v)

\* CrossDesign with P pending and Q pass: the sink entity X is pass and not
\* useful, the sink entity Y is pending and useful, and so is task P
C26_Witness ==
    /\ output # <<>> /\ input.data = CrossDesign
    /\ input.sigma = [n \in Names |-> IF n = "P" THEN "pending" ELSE "pass"]
    /\ non_proof_sink(CrossGraph, CrossGraph.order[StatusKey("entity", "X")])
    /\ output.mu[CrossGraph.order[StatusKey("entity", "X")]] = "pass"
    /\ ~output.useful[CrossGraph.order[StatusKey("entity", "X")]]
    /\ output.useful[CrossGraph.order[StatusKey("entity", "Y")]]
    /\ output.useful[CrossGraph.order[StatusKey("task", "P")]]
    /\ ~output.useful[CrossGraph.order[StatusKey("task", "Q")]]

\* CrossDesign with both tasks pending: usefulness passes from the cross
\* vertex of X to entity X and on to task Q
C26_WitnessCross ==
    /\ output # <<>> /\ input.data = CrossDesign
    /\ input.sigma = [n \in Names |-> "pending"]
    /\ output.useful[CrossGraph.order[StatusKey("cross", "X")]]
    /\ output.useful[CrossGraph.order[StatusKey("entity", "X")]]
    /\ output.useful[CrossGraph.order[StatusKey("task", "Q")]]

\* C33: no vertex whose status is pass or fail is useful, after
\* mark_sinks_as_useful() and after iterate_useful(), sinks included; and
\* _set_useful of a vertex that is already useful changes no useful flag, no
\* queued vertex and so not the queue, with the queue filled (a second
\* mark_sinks_as_useful()) and with the queue empty
C33_DecidedNeverUseful ==
    output # <<>> =>
        /\ \A v \in DOMAIN output.useful :
                output.mu[v] \in {"pass", "fail"} =>
                    ~output.useful[v] /\ ~output.marked.current_useful[v]
        /\ output.marked_again = output.marked
        /\ \A p \in output.set_again :
                (output.useful[p[1]] \/ output.mu[p[1]] \in {"pass", "fail"}) =>
                    p[2] = output.useful_map

\* CrossDesign with P pending and Q pass: the sink entity X is pass and is
\* not marked, the sink entity Y is marked with its in-edges queued, and a
\* second marking and a further _set_useful of Y leave the map as it is
C33_Witness ==
    /\ output # <<>> /\ input.data = CrossDesign
    /\ input.sigma = [n \in Names |-> IF n = "P" THEN "pending" ELSE "pass"]
    /\ output.mu[CrossGraph.order[StatusKey("entity", "X")]] = "pass"
    /\ ~output.marked.current_useful[CrossGraph.order[StatusKey("entity", "X")]]
    /\ output.marked.current_useful[CrossGraph.order[StatusKey("entity", "Y")]]
    /\ output.marked.useful_dirty_queue # {}
    /\ output.marked_again = output.marked
    /\ output.useful[CrossGraph.order[StatusKey("entity", "Y")]]
    /\ <<CrossGraph.order[StatusKey("entity", "Y")], output.useful_map>> \in output.set_again

(***************************************************************************)
(* sccs.py: find_sccs as a function of the adjacency dict.  The input is a *)
(* dict over the nodes SccNodes whose number of keys is in KeyCounts, the  *)
(* keys in the order they were inserted, each with a list of at most       *)
(* MaxSucc successors; the output is the list of components.               *)
(***************************************************************************)
SccNodes == {1, 2, 3, 4}
KeyCounts == {0, 1, 2}
MaxSucc == 3

\* the lists of distinct nodes whose length is in lens
ListsOf(lens) ==
    UNION {{q \in [1..k -> SccNodes] : \A i, j \in 1..k : q[i] = q[j] => i = j} :
             k \in lens}

AdjacencyDicts(lens, n) ==
    UNION {{[nodes |-> keys, succ |-> f] : f \in [Range(keys) -> ListsOf(0..n)]} :
             keys \in ListsOf(lens)}

FindSccs ==
    /\ output = <<>>
    /\ output' = [components |-> find_sccs(input.nodes, input.succ)]
    /\ UNCHANGED <<dbvars, schedvars, runvars, leasevars, input>>

InitSccs ==
    /\ input \in AdjacencyDicts(KeyCounts, MaxSucc)
    /\ output = <<>>
    /\ db = EmptyTable
    /\ wlock = 0
    /\ conn = [c \in Conns |-> IdleConn]
    /\ faults = 0
    /\ priority = [t \in Tasks |-> 0]
    /\ SchedIdle
    /\ RunIdle /\ LeaseIdle

NextSccs == FindSccs

SpecSccs == InitSccs /\ [][NextSccs]_vars

\* the nodes reachable from the nodes of seen along the edges of succ
RECURSIVE reachable(_, _)
reachable(succ, seen) ==
    LET more == seen \cup UNION {Range(nodes_get(succ, u)) : u \in seen}
    IN  IF more = seen THEN seen ELSE reachable(succ, more)

\* the index of the component that holds node u
component_of(components, u) ==
    CHOOSE i \in 1..Len(components) : u \in Range(components[i])

\* the components are disjoint lists without repetitions that cover keys(A)
partitions_keys(A, components) ==
    /\ Range(Flatten(components)) = Range(A.nodes)
    /\ Len(Flatten(components)) = Cardinality(Range(A.nodes))
    /\ \A i \in 1..Len(components) : components[i] # <<>>

\* every node of a component reaches every other node of it
strongly_connected(A, components) ==
    \A i \in 1..Len(components) : \A u, v \in Range(components[i]) :
        v \in reachable(A.succ, {u})

\* two nodes that reach each other are in one component
maximal(A, components) ==
    \A u, v \in Range(Flatten(components)) :
        (v \in reachable(A.succ, {u}) /\ u \in reachable(A.succ, {v})) =>
            component_of(components, u) = component_of(components, v)

\* the component of the target of an edge comes before that of its source
reverse_topological(A, components) ==
    \A u \in Range(A.nodes) : \A v \in Range(A.succ[u]) :
        (u \in Range(Flatten(components)) /\ v \in Range(Flatten(components))) =>
            component_of(components, v) <= component_of(components, u)

C19_ClosedDicts ==
    (output # <<>> /\ all_nodes(input.nodes, input.succ) = Range(input.nodes)) =>
        /\ partitions_keys(input, output.components)
        /\ strongly_connected(input, output.components)
        /\ maximal(input, output.components)
        /\ reverse_topological(input, output.components)

\* {2: [3, 4], 1: [2]} gives [[3], [4], [2]]: the key 1 is in no component
C19_LostKey ==
    /\ input.nodes = <<2, 1>>
    /\ input.succ[2] = <<3, 4>> /\ input.succ[1] = <<2>>
    /\ output # <<>>
    /\ output.components = <<<<3>>, <<4>>, <<2>>>>

\* {1: [2, 3, 4], 4: [2]} gives [[2], [3], [4, 1]]: 2 and 3 are no keys, and
\* 4 does not reach 1
C19_MergedComponent ==
    /\ input.nodes = <<1, 4>>
    /\ input.succ[1] = <<2, 3, 4>> /\ input.succ[4] = <<2>>
    /\ output # <<>>
    /\ output.components = <<<<2>>, <<3>>, <<4, 1>>>>
    /\ ~strongly_connected(input, output.components)

(***************************************************************************)
(* data.py: a long-lived status map, step by step.  The map of LocalDesign *)
(* is created once; set_status() is called on its task vertices between    *)
(* the calls of iterate(), and iterate() runs one round of its loops at a   *)
(* time.  input is the IvyStatusMap; output holds the position of          *)
(* iterate() (pc) and the number of set_status() calls made so far.        *)
(***************************************************************************)
MaxCalls == 4

IterStatuses == {"unreachable", "fail", "pending"}

\* the loop "for index in self.cross_dirty_list" and the clearing of the list
iterate_cross_flush(g, m) ==
    [iterate_cross(g, m, m.cross_dirty_list) EXCEPT !.cross_dirty_list = <<>>]

SetStatus(key, status) ==
    /\ output.pc = "idle"
    /\ output.calls < MaxCalls
    /\ input' = set_status(LocalGraph, input, key, status)
    /\ output' = [output EXCEPT !.calls = @ + 1]
    /\ UNCHANGED <<dbvars, schedvars, runvars, leasevars>>

IterateCalled ==
    /\ output.pc = "idle"
    /\ output' = [output EXCEPT !.pc = "while"]
    /\ UNCHANGED <<dbvars, schedvars, runvars, leasevars, input>>

\* one round of "while self.dirty_queue"
IterateDirty ==
    /\ output.pc = "while"
    /\ input.dirty_queue # {}
    /\ input' = iterate_dirty_step(LocalGraph, input)
    /\ UNCHANGED <<dbvars, schedvars, runvars, leasevars, output>>

\* the dirty queue is empty: the cross vertices are set
IterateCross ==
    /\ output.pc = "while"
    /\ input.dirty_queue = {}
    /\ input.cross_dirty_list # <<>>
    /\ input' = iterate_cross_flush(LocalGraph, input)
    /\ UNCHANGED <<dbvars, schedvars, runvars, leasevars, output>>

\* "while self.dirty_queue or self.cross_dirty_list" is false
IterateReturns ==
    /\ output.pc = "while"
    /\ input.dirty_queue = {}
    /\ input.cross_dirty_list = <<>>
    /\ output' = [output EXCEPT !.pc = "idle"]
    /\ UNCHANGED <<dbvars, schedvars, runvars, leasevars, input>>

IterateRuns == IterateDirty \/ IterateCross \/ IterateReturns

InitIter ==
    /\ input = IvyStatusMap(LocalGraph)
    /\ output = [pc |-> "idle", calls |-> 0]
    /\ db = EmptyTable
    /\ wlock = 0
    /\ conn = [c \in Conns |-> IdleConn]
    /\ faults = 0
    /\ priority = [t \in Tasks |-> 0]
    /\ SchedIdle
    /\ RunIdle /\ LeaseIdle

NextIter ==
    \/ \E i \in 1..Len(LocalGraph.tasks), status \in IterStatuses :
          SetStatus(LocalGraph.tasks[i], status)
    \/ IterateCalled
    \/ IterateDirty
    \/ IterateCross
    \/ IterateReturns

\* a call of iterate() keeps running until it returns
SpecIter == InitIter /\ [][NextIter]_vars /\ WF_vars(IterateRuns)

C24_Swapping ==
    /\ output.pc = "while"
    /\ input.dirty_queue = {}
    /\ input.current_status[LocalGraph.order[StatusKey("task", "P")]] = "pending"
    /\ input.current_status[LocalGraph.order[StatusKey("task", "Q")]] = "pending"
    /\ input.current_status[LocalGraph.order[StatusKey("entity", "X")]]
          # input.current_status[LocalGraph.order[StatusKey("cross", "X")]]
    /\ input.current_status[LocalGraph.order[StatusKey("entity", "Y")]]
          # input.current_status[LocalGraph.order[StatusKey("cross", "Y")]]

(***************************************************************************)
(* status_db.py: the table proof_status with its keys as they are stored.  *)
(* A row is [name, solver, status] with name the db_key of the IvyName, a  *)
(* JSON text, here the list of its tokens.  The input is either a table    *)
(* for reduced_status() or a set of tasks for initialize_status() on the   *)
(* empty table; the output is what the method returns or leaves behind.    *)
(***************************************************************************)
HierNames == {<<"top">>, <<"top", "u", "sub">>}

HierTasks ==
    {[name |-> <<"top">>, solver |-> "s1"], [name |-> <<"top">>, solver |-> "s2"],
     [name |-> <<"top">>, solver |-> "s3"],
     [name |-> <<"top", "u", "sub">>, solver |-> "s1"]}

Tok(kind, text) == [kind |-> kind, text |-> text]

\* the items of a JSON array of strings, separated by ","
RECURSIVE json_items(_)
json_items(parts) ==
    IF parts = <<>> THEN <<>>
    ELSE IF Len(parts) = 1 THEN <<Tok("string", parts[1])>>
    ELSE <<Tok("string", parts[1]), Tok(",", "")>> \o json_items(Tail(parts))

\* db_key of the last part only
db_key_last(parts) ==
    <<Tok("[", "")>> \o json_items(SubSeq(parts, Len(parts), Len(parts))) \o <<Tok("]", "")>>

\* json.dumps(self.parts, separators=(",", ":"))
db_key(parts) == <<Tok("[", "")>> \o json_items(parts) \o <<Tok("]", "")>>

\* IvyName.from_db_key(data, key) as full_status calls it: the name whose
\* parts are the strings of the JSON array
from_db_key(key) == [i \in 1..((Len(key) - 1) \div 2) |-> key[2 * i].text]

\* the rows of a table given by the status of each task, NoRow for none
table_rows(table) ==
    {[name |-> db_key(t.name), solver |-> t.solver, status |-> table[t]] :
        t \in {u \in DOMAIN table : table[u] # NoRow}}

\* the task a row is the row of
row_task(r) == [name |-> from_db_key(r.name), solver |-> r.solver]

\* initialize_status: INSERT of a pending row for each task; a row with the
\* same primary key fails the statement and the transaction is rolled back
insert_pending(rows, names) ==
    IF \E r \in rows, t \in names : r.name = db_key(t.name) /\ r.solver = t.solver
    THEN rows
    ELSE rows \cup {[name |-> db_key(t.name), solver |-> t.solver, status |-> "pending"] :
                       t \in names}

full_status(rows) ==
    [t \in {row_task(r) : r \in rows} |-> (CHOOSE r \in rows : row_task(r) = t).status]

\* reduced_status on the rows: grouped by name, status_or_equivalent
rows_reduced_status(rows) ==
    LET full == full_status(rows)
    IN  [n \in {t.name : t \in DOMAIN full} |->
            status_or_equivalent({full[t] : t \in {u \in DOMAIN full : u.name = n}})]

StoreInputs(tasks) ==
    {[op |-> "reduced_status", rows |-> table_rows(table), names |-> {}] :
        table \in [tasks -> Status \cup {NoRow}]}
    \cup {[op |-> "initialize_status", rows |-> {}, names |-> T] : T \in SUBSET tasks}

ReducedStatus ==
    /\ output = <<>>
    /\ input.op = "reduced_status"
    /\ output' = [reduced |-> rows_reduced_status(input.rows)]
    /\ UNCHANGED <<dbvars, schedvars, runvars, leasevars, input>>

InitializeStatus ==
    /\ output = <<>>
    /\ input.op = "initialize_status"
    /\ output' = [full |-> full_status(insert_pending(input.rows, input.names))]
    /\ UNCHANGED <<dbvars, schedvars, runvars, leasevars, input>>

InitStore ==
    /\ input \in StoreInputs(HierTasks)
    /\ output = <<>>
    /\ db = EmptyTable
    /\ wlock = 0
    /\ conn = [c \in Conns |-> IdleConn]
    /\ faults = 0
    /\ priority = [t \in Tasks |-> 0]
    /\ SchedIdle
    /\ RunIdle /\ LeaseIdle

NextStore == ReducedStatus \/ InitializeStatus

SpecStore == InitStore /\ [][NextStore]_vars

\* the statuses of the rows of the name n
name_statuses(rows, n) == {r.status : r \in {q \in rows : q.name = db_key(n)}}

EventStatus == Status \ {"unreachable"}

\* the table has a row for every task of tasks: any status for the task of
\* the event, scheduled or running for the others
EventInputs(tasks) ==
    {[db |-> [u \in Tasks |-> IF u = t THEN old ELSE IF u \in tasks THEN other ELSE NoRow],
      name |-> t, status |-> status] :
        t \in tasks, old \in Status, status \in EventStatus,
        other \in {"scheduled", "running"}}

\* what change_status returns to the handler: the stored status if it is not
\* in the require set, nothing otherwise
main_proof_event_failure(table, t, status) ==
    IF table[t] \in (IF status = "running" THEN {"scheduled"} ELSE {"running"})
    THEN NoResult ELSE table[t]

\* tl.log_error("unexpected proof status change", ..., raise_error=False)
main_proof_event_log(table, t, status) ==
    IF main_proof_event_failure(table, t, status) = NoResult THEN <<>>
    ELSE <<[message |-> "unexpected proof status change", name |-> t,
            status |-> status,
            failure |-> main_proof_event_failure(table, t, status),
            raise_error |-> FALSE]>>

HandleEvent ==
    /\ output = <<>>
    /\ output' = [db |-> main_proof_event_handler(input.db, input.name, input.status),
                  log |-> main_proof_event_log(input.db, input.name, input.status)]
    /\ UNCHANGED <<dbvars, schedvars, runvars, leasevars, input>>

InitEvent ==
    /\ input \in EventInputs(RunTasks)
    /\ output = <<>>
    /\ db = EmptyTable
    /\ wlock = 0
    /\ conn = [c \in Conns |-> IdleConn]
    /\ faults = 0
    /\ priority = [t \in Tasks |-> 0]
    /\ SchedIdle
    /\ RunIdle /\ LeaseIdle

NextEvent == HandleEvent

SpecEvent == InitEvent /\ [][NextEvent]_vars

\* C30: the handler stores the status of the event if the stored status is
\* in the require set of the new status, and leaves the row alone if not:
\* scheduled for running; pending, scheduled or running for abandoned and
\* pending; running for every other status
C30_RequireByStatus ==
    output # <<>> =>
        LET old == input.db[input.name]
            require == IF input.status = "running" THEN {"scheduled"}
                       ELSE IF input.status \in {"abandoned", "pending"}
                       THEN {"pending", "scheduled", "running"}
                       ELSE {"running"}
        IN  output.db[input.name] = IF old \in require THEN input.status ELSE old

\* a pending event for a task whose stored status is scheduled was handled
\* and the row is still scheduled
C30_PendingRejected ==
    /\ output # <<>>
    /\ input.status = "pending"
    /\ input.db[input.name] = "scheduled"
    /\ output.db[input.name] = "scheduled"

\* C31: an event whose require set does not hold the stored status of its
\* task leaves every row of the table as it was, logs one error that is not
\* raised, and requests no cancellation
C31_MismatchIsNonFatal ==
    (output # <<>> /\ main_proof_event_failure(input.db, input.name, input.status) # NoResult) =>
        /\ output.db = input.db
        /\ Len(output.log) = 1
        /\ output.log[1].failure = input.db[input.name]
        /\ ~output.log[1].raise_error
        /\ \A t \in Tasks : ~cancel_req[t]

\* a pass event for a task whose row is scheduled: the row is still
\* scheduled, the row of the other task still running, one error is logged
C31_Witness ==
    /\ output # <<>>
    /\ input.status = "pass"
    /\ input.db[input.name] = "scheduled"
    /\ output.db[input.name] = "scheduled"
    /\ \E u \in RunTasks \ {input.name} : input.db[u] = "running" /\ output.db[u] = "running"
    /\ Len(output.log) = 1 /\ output.log[1].failure = "scheduled"

(***************************************************************************)
(* data.py: IvyStatusGraph as a function of the design.  The designs have  *)
(* the proofs P and Q and the invariants X and Y; P ranges over the        *)
(* combinations of solve, uses, assumes, asserts and exports below, Q over *)
(* three proofs, and X is solved or not.                                   *)
(***************************************************************************)
GraphProofs(name, other) ==
    {Proof(name, solve, uses, assumes, asserts, exports) :
        solve \in BOOLEAN,
        uses \in {<<>>, <<[name |-> other, export |-> FALSE]>>,
                 <<[name |-> other, export |-> TRUE]>>},
        assumes \in {<<>>, <<[name |-> "X", cross |-> FALSE]>>,
                    <<[name |-> "X", cross |-> TRUE]>>,
                    <<[name |-> "Y", cross |-> TRUE], [name |-> "X", cross |-> FALSE]>>},
        asserts \in {<<>>, <<[name |-> "Y", local |-> FALSE]>>,
                    <<[name |-> "Y", local |-> TRUE]>>,
                    <<[name |-> "X", local |-> FALSE], [name |-> "Y", local |-> FALSE]>>},
        exports \in {<<>>, <<[name |-> "X", cross |-> FALSE]>>,
                    <<[name |-> "X", cross |-> TRUE]>>}}

OtherProofs(name) ==
    {Proof(name, TRUE, <<>>, <<[name |-> "Y", cross |-> TRUE]>>,
           <<[name |-> "X", local |-> TRUE]>>, <<>>),
     Proof(name, TRUE, <<>>, <<[name |-> "Y", cross |-> FALSE]>>,
           <<[name |-> "X", local |-> FALSE]>>, <<>>),
     Proof(name, FALSE, <<>>, <<[name |-> "X", cross |-> FALSE]>>, <<>>,
           <<[name |-> "Y", cross |-> FALSE]>>)}

GraphDesigns(proofs) ==
    {<<p, q, Invariant("X", solve), Invariant("Y", FALSE)>> :
        p \in proofs, q \in OtherProofs("Q"), solve \in BOOLEAN}

\* graph: IvyStatusGraph of the design; edges: the edges each entity yields
BuildGraph ==
    /\ output = <<>>
    /\ \E g \in {IvyStatusGraph(input)} :
         output' = [graph |-> g,
                    edges |-> [k \in 1..Len(input) |-> graph_edges(input[k])]]
    /\ UNCHANGED <<dbvars, schedvars, runvars, leasevars, input>>

InitGraph ==
    /\ input \in GraphDesigns(GraphProofs("P", "Q"))
    /\ output = <<>>
    /\ db = EmptyTable
    /\ wlock = 0
    /\ conn = [c \in Conns |-> IdleConn]
    /\ faults = 0
    /\ priority = [t \in Tasks |-> 0]
    /\ SchedIdle
    /\ RunIdle /\ LeaseIdle

NextGraph == BuildGraph

SpecGraph == InitGraph /\ [][NextGraph]_vars

\* the ranks of the sinks
sink_indices(g) == {g.order[g.sinks[i]] : i \in 1..Len(g.sinks)}

\* the vertices a design reports: proof(P) and the entities P asserts, for
\* every solved proof P that asserts something, and entity(I) for every
\* solved invariant I
reported_keys(data) ==
    UNION {IF data[k].kind = "proof"
           THEN IF data[k].solve /\ data[k].asserts # <<>>
                THEN {StatusKey("proof", data[k].name)} \cup
                     {StatusKey("entity", data[k].asserts[i].name) : i \in 1..Len(data[k].asserts)}
                ELSE {}
           ELSE IF data[k].solve THEN {StatusKey("entity", data[k].name)} ELSE {} :
           k \in 1..Len(data)}

\* C34, as stated: every vertex in the sinks set of the status graph has no
\* outgoing edge
C34_SinksHaveNoOutEdges ==
    output # <<>> =>
        \A v \in sink_indices(output.graph) : output.graph.out_edges_list[v] = {}

\* C34, amended: the sinks set holds, once each, exactly the reported
\* vertices, each of them a vertex of the graph; a proof sink has an edge to
\* every entity it asserts, which is a sink too
C34_SinksAreReported ==
    output # <<>> =>
        /\ Range(output.graph.sinks) = reported_keys(input)
        /\ Len(output.graph.sinks) = Cardinality(Range(output.graph.sinks))
        /\ Range(output.graph.sinks) \subseteq DOMAIN output.graph.order
        /\ \A k \in 1..Len(input) :
              (input[k].kind = "proof" /\ StatusKey("proof", input[k].name) \in Range(output.graph.sinks)) =>
                \A i \in 1..Len(input[k].asserts) :
                    /\ StatusKey("entity", input[k].asserts[i].name) \in Range(output.graph.sinks)
                    /\ output.graph.order[StatusKey("entity", input[k].asserts[i].name)] \in
                         output.graph.out_edges_list[output.graph.order[StatusKey("proof", input[k].name)]]

\* P solved, asserting Y locally: the sink proof(P) has an outgoing edge, to
\* the sink entity(Y), which has none
C34_Witness ==
    /\ output # <<>>
    /\ input[1].solve /\ input[1].asserts = <<[name |-> "Y", local |-> TRUE]>>
    /\ input[2].assumes = <<[name |-> "Y", cross |-> TRUE]>>
    /\ output.graph.order[StatusKey("proof", "P")] \in sink_indices(output.graph)
    /\ output.graph.order[StatusKey("entity", "Y")] \in sink_indices(output.graph)
    /\ output.graph.out_edges_list[output.graph.order[StatusKey("proof", "P")]] =
          {output.graph.order[StatusKey("entity", "Y")]}
    /\ output.graph.out_edges_list[output.graph.order[StatusKey("entity", "Y")]] = {}

\* the ranks reachable from the ranks of seen along the edges of g
RECURSIVE graph_reachable(_, _)
graph_reachable(g, seen) ==
    LET more == seen \cup UNION {g.out_edges_list[u] : u \in seen}
    IN  IF more = seen THEN seen ELSE graph_reachable(g, more)

\* u and v are in one strongly connected component of g
same_component(g, u, v) ==
    v \in graph_reachable(g, {u}) /\ u \in graph_reachable(g, {v})

\* the keys that are a sink or an endpoint of an edge some entity yields
graph_vertices(sinks, edges) ==
    Range(sinks) \cup
    UNION {UNION {{edges[k][i].source, edges[k][i].target} : i \in 1..Len(edges[k])} :
             k \in 1..Len(edges)}

\* C35: the ranks are a bijection between the vertices and 0..|V|-1, and
\* every edge u -> v whose endpoints are in different strongly connected
\* components has rank(u) < rank(v)
C35_RanksTopological ==
    output # <<>> =>
        /\ DOMAIN output.graph.order = graph_vertices(output.graph.sinks, output.edges)
        /\ DOMAIN output.graph.order_list = 0..(Cardinality(DOMAIN output.graph.order) - 1)
        /\ \A key \in DOMAIN output.graph.order :
               /\ output.graph.order[key] \in DOMAIN output.graph.order_list
               /\ output.graph.order_list[output.graph.order[key]] = key
        /\ \A u \in DOMAIN output.graph.order_list : \A v \in output.graph.out_edges_list[u] :
               ~same_component(output.graph, u, v) => u < v

\* a graph with a component of more than one vertex (entity X and proof P,
\* P assuming and asserting X) and an edge that leaves it
C35_Witness ==
    /\ output # <<>>
    /\ input[1].solve
    /\ input[1].assumes = <<[name |-> "X", cross |-> FALSE]>>
    /\ input[1].asserts = <<[name |-> "X", local |-> FALSE], [name |-> "Y", local |-> FALSE]>>
    /\ same_component(output.graph, output.graph.order[StatusKey("entity", "X")],
                       output.graph.order[StatusKey("proof", "P")])
    /\ output.graph.order[StatusKey("entity", "X")] # output.graph.order[StatusKey("proof", "P")]
    /\ \E v \in output.graph.out_edges_list[output.graph.order[StatusKey("proof", "P")]] :
          /\ ~same_component(output.graph, output.graph.order[StatusKey("proof", "P")], v)
          /\ output.graph.order[StatusKey("proof", "P")] < v

\* the edge an assumption or an export item gives
cross_or_entity(item) == StatusKey(IF item.cross THEN "cross" ELSE "entity", item.name)

\* C36, as stated: the edges of every proof P, solved or not, hold the edge
\* from each assumption to proof(P) and from export(U) to proof(P) for each
\* use U, and from export(U) to export(P) when U.export
C36_EdgesOfEveryProof ==
    output # <<>> =>
        \A k \in 1..Len(input) : input[k].kind = "proof" =>
            /\ \A i \in 1..Len(input[k].assumes) :
                  StatusEdge(cross_or_entity(input[k].assumes[i]), StatusKey("proof", input[k].name))
                      \in Range(output.edges[k])
            /\ \A i \in 1..Len(input[k].uses) :
                  /\ StatusEdge(StatusKey("export", input[k].uses[i].name),
                                StatusKey("proof", input[k].name)) \in Range(output.edges[k])
                  /\ input[k].uses[i].export =>
                        StatusEdge(StatusKey("export", input[k].uses[i].name),
                                   StatusKey("export", input[k].name)) \in Range(output.edges[k])

\* C36, amended: the assumption edges are there for a solved proof that
\* asserts something, the edges export(U) -> proof(P) for a solved proof,
\* and the edges export(U) -> export(P) for every proof; a proof that is not
\* solved yields no edge into proof(P), and one that asserts nothing none
\* from an assumption
C36_EdgesOfSolvedProof ==
    output # <<>> =>
        \A k \in 1..Len(input) : input[k].kind = "proof" =>
            /\ (input[k].solve /\ input[k].asserts # <<>>) =>
                  \A i \in 1..Len(input[k].assumes) :
                      StatusEdge(cross_or_entity(input[k].assumes[i]),
                                 StatusKey("proof", input[k].name)) \in Range(output.edges[k])
            /\ \A i \in 1..Len(input[k].uses) :
                  /\ input[k].solve =>
                        StatusEdge(StatusKey("export", input[k].uses[i].name),
                                   StatusKey("proof", input[k].name)) \in Range(output.edges[k])
                  /\ input[k].uses[i].export =>
                        StatusEdge(StatusKey("export", input[k].uses[i].name),
                                   StatusKey("export", input[k].name)) \in Range(output.edges[k])
            /\ ~input[k].solve =>
                  \A e \in Range(output.edges[k]) : e.target # StatusKey("proof", input[k].name)
            /\ input[k].asserts = <<>> =>
                  \A e \in Range(output.edges[k]) :
                      e.target = StatusKey("proof", input[k].name) => e.source.type = "export"

\* P not solved, assuming cross Y and X and using Q with export: its edges
\* hold export(Q) -> export(P) and none into proof(P); Q, solved, has its
\* assumption edge
C36_Witness ==
    /\ output # <<>>
    /\ ~input[1].solve
    /\ input[1].assumes = <<[name |-> "Y", cross |-> TRUE], [name |-> "X", cross |-> FALSE]>>
    /\ input[1].uses = <<[name |-> "Q", export |-> TRUE]>>
    /\ StatusEdge(StatusKey("export", "Q"), StatusKey("export", "P")) \in Range(output.edges[1])
    /\ \A e \in Range(output.edges[1]) : e.target # StatusKey("proof", "P")
    /\ input[2].solve
    /\ StatusEdge(StatusKey("cross", "Y"), StatusKey("proof", "Q")) \in Range(output.edges[2])

(***************************************************************************)
(* data.py: one IvyStatusMap kept over a sequence of updates, each a       *)
(* set_status of a task vertex followed by iterate(), beside the map that  *)
(* run_status_task builds anew from the same task statuses.                *)
(***************************************************************************)
IncrDesigns == {CrossDesign, LocalDesign, SchedDesign}

\* the statuses of the task vertices of the map
task_valuation(g, m) ==
    [n \in Names |-> m.current_status[g.order[StatusKey("task", n)]]]

\* set_status(task n, status) and iterate() on the kept map; fresh: the
\* statuses of a new map with the same task statuses after iterate()
SetStatusIterate(n, status) ==
    /\ \E g \in {design_graph(input.data)} :
         \E m \in {iterate(g, set_status(g, input.map, StatusKey("task", n), status))} :
            /\ input' = [data |-> input.data, map |-> m]
            /\ output' = [fresh |-> iterated_status(g, task_valuation(g, m))]
    /\ UNCHANGED <<dbvars, schedvars, runvars, leasevars>>

InitIncr ==
    /\ input \in {[data |-> d, map |-> IvyStatusMap(design_graph(d))] : d \in IncrDesigns}
    /\ output = <<>>
    /\ db = EmptyTable
    /\ wlock = 0
    /\ conn = [c \in Conns |-> IdleConn]
    /\ faults = 0
    /\ priority = [t \in Tasks |-> 0]
    /\ SchedIdle
    /\ RunIdle /\ LeaseIdle

NextIncr == \E n \in Names, status \in Status \ {"unreachable"} : SetStatusIterate(n, status)

SpecIncr == InitIncr /\ [][NextIncr]_vars

C37_KeptPending ==
    /\ output # <<>> /\ input.data = LocalDesign
    /\ task_valuation(LocalGraph, input.map) = [n \in Names |-> "pass"]
    /\ input.map.current_status[LocalGraph.order[StatusKey("entity", "X")]] = "pending"
    /\ input.map.current_status[LocalGraph.order[StatusKey("entity", "Y")]] = "pending"
    /\ output.fresh[LocalGraph.order[StatusKey("entity", "X")]] = "pass"
    /\ output.fresh[LocalGraph.order[StatusKey("entity", "Y")]] = "pass"

(***************************************************************************)
(* solver/__init__.py: Solvers.dispatch_proof_task called for the tasks    *)
(* one at a time, in any order and for any priorities of their solvers.    *)
(***************************************************************************)
DispatchProofTask(t) ==
    /\ task_state[t] = "none"
    /\ SchedStep(dispatch_proof_task(SchedState, t))
    /\ UNCHANGED <<dispatched, wlock, conn, faults, runvars, leasevars, fnvars>>

InitDispatch ==
    /\ priority \in [Tasks -> {-1, 0, 1}]
    /\ db = EmptyTable
    /\ wlock = 0
    /\ conn = [c \in Conns |-> IdleConn]
    /\ faults = 0
    /\ SchedIdle
    /\ RunIdle /\ LeaseIdle /\ FnIdle

NextDispatch == \E t \in Tasks : DispatchProofTask(t)

SpecDispatch == InitDispatch /\ [][NextDispatch]_vars

\* the call for t reads self._priority_sentinels[name]
sentinel_looked_up(t) ==
    /\ priority[t] # 0
    /\ _positive_priority_tasks[t.name] # {}
    /\ _negative_priority_tasks[t.name] # {}

\* the call for t assigns self._priority_sentinels[name]
sentinel_created(t) ==
    \/ /\ priority[t] > 0
       /\ _negative_priority_tasks[t.name] # {}
       /\ _positive_priority_tasks[t.name] = {}
    \/ /\ priority[t] < 0
       /\ _positive_priority_tasks[t.name] # {}
       /\ _negative_priority_tasks[t.name] = {}

\* C39: after any sequence of dispatch_proof_task calls a name with tasks
\* of positive and of negative priority has a sentinel that depends on
\* every positive task and on which every negative task depends; a call
\* reads the sentinel of a name only when there is one, assigns it only
\* when there is none, and never takes a dependency away
C39_SentinelOrdersPriorities ==
    /\ [](\A n \in Names :
            (_positive_priority_tasks[n] # {} /\ _negative_priority_tasks[n] # {}) =>
                /\ _priority_sentinels[n] # "none"
                /\ _positive_priority_tasks[n] \subseteq sentinel_depends_on[n]
                /\ _negative_priority_tasks[n] \subseteq depends_on_sentinel[n])
    /\ [][\A t \in Tasks : (task_state[t] = "none" /\ task_state'[t] # "none") =>
            /\ sentinel_looked_up(t) => _priority_sentinels[t.name] # "none"
            /\ sentinel_created(t) =>
                  _priority_sentinels[t.name] = "none" /\ _priority_sentinels'[t.name] # "none"
            /\ sentinel_depends_on[t.name] \subseteq sentinel_depends_on'[t.name]
            /\ depends_on_sentinel[t.name] \subseteq depends_on_sentinel'[t.name]]_vars

\* the three tasks of P dispatched, two of positive and one of negative
\* priority: the sentinel of P depends on the two and the third on it,
\* and Q, with its one task, has none
C39_Witness ==
    /\ ~dispatched
    /\ priority[TaskP1] = 1 /\ priority[TaskP2] = 1 /\ priority[TaskP3] = -1
    /\ \A t \in Tasks : task_state[t] = "waiting"
    /\ _priority_sentinels["P"] = "waiting"
    /\ sentinel_depends_on["P"] = {TaskP1, TaskP2}
    /\ depends_on_sentinel["P"] = {TaskP3}
    /\ _priority_sentinels["Q"] = "none"

(***************************************************************************)
(* solver/__init__.py: a run in which any solver task can be cancelled at  *)
(* any time, with or without already_solved, beside the cancellations of   *)
(* the handler and the usefulness recompute.  The design has the tasks P   *)
(* with s1 and s2 and Q with s1, all of priority 0.                        *)
(***************************************************************************)
\* task.cancel(already_solved=solved), called on the task from outside
CancelTask(t, solved) ==
    /\ dispatched
    /\ task_state[t] # "none"
    /\ SchedStep(cancel(SchedState, t, solved))
    /\ UNCHANGED <<dispatched, wlock, conn, faults>>

InitCancel ==
    /\ db = [t \in Tasks |-> IF t = TaskP3 THEN NoRow ELSE "pending"]
    /\ wlock = 0
    /\ conn = [c \in Conns |-> IdleConn]
    /\ faults = 0
    /\ priority = [t \in Tasks |-> 0]
    /\ SchedIdle
    /\ RunIdle /\ LeaseIdle /\ FnIdle

NextCancel ==
    /\ \/ /\ ~dispatched
          /\ \E order \in DispatchOrders({t \in Tasks : db[t] # NoRow}) :
                RunCommand(order)
       \/ \E t \in Tasks :
             \/ Start(t)
             \/ \E status \in Verdicts : Finish(t, status)
             \/ Cancelled(t)
             \/ \E solved \in BOOLEAN : CancelTask(t, solved)
       \/ \E i \in 1..Len(recomputes) : Recompute(i)
    /\ UNCHANGED <<runvars, leasevars, fnvars>>

SpecCancel == InitCancel /\ [][NextCancel]_vars

\* C40: already_solved, once set by a cancellation, stays set whatever
\* cancellations follow, and no pending event is emitted for a task that
\* has it set, whether a cancellation without the flag came before or after
C40_AlreadySolvedSticky ==
    /\ [][\A t \in Tasks : already_solved[t] => already_solved'[t]]_vars
    /\ [][\A t \in Tasks :
            (already_solved[t] \/ already_solved'[t]) =>
                (events'[t] = events[t] \/ events'[t][Len(events'[t])] # "pending")]_vars

\* a task cancelled while it ran, with already_solved set and no pending
\* event, beside one of the same name cancelled without it, whose last
\* event is pending
C40_Witness ==
    \E t, u \in Tasks :
        /\ t.name = u.name
        /\ task_state[t] = "cancelled" /\ already_solved[t]
        /\ events[t] = <<"running">> /\ db[t] = "running"
        /\ task_state[u] = "cancelled" /\ ~already_solved[u]
        /\ events[u] = <<"running", "pending">> /\ db[u] = "pending"

====
